---- MODULE Spec2Model ----
(***************************************************************************)
(* Model of server/src/operators/qdrant_operator.rs: the client-side       *)
(* orchestration of a vector-search backend (collection bootstrap, point   *)
(* insert/update, group-membership edits, search and recommend).           *)
(*                                                                         *)
(* Every async handler is a caller's invocation that advances from one     *)
(* backend round trip (an .await) to the next; the code between two awaits *)
(* runs in the step that ends at the later one.  The backend applies an    *)
(* accepted write when the call is made, and a backend call may fail.      *)
(***************************************************************************)
EXTENDS Integers, Sequences, FiniteSets, TLC

VARIABLES
    points,       \* backend: point id -> stored point (vectors + payload), or absent
    collections,  \* backend: collection name -> collection (vector spaces, indexes), or absent
    callers,      \* one invocation per caller: operation, arguments, position, locals, backend calls issued
    inserted,     \* history: the payload the last upsert_point wrote, while only metadata-less updates followed
    startedAfter  \* history: the caller's create_collection call began with its collection present

vars == <<points, collections, callers, inserted, startedAfter>>

------------------------------------------------------------------------------
(* Bounds *)

MaxGroups == 2

------------------------------------------------------------------------------
(* Option<T> *)

None == [some |-> FALSE]
Some(x) == [some |-> TRUE, v |-> x]
UnwrapOr(o, d) == IF o.some THEN o.v ELSE d

------------------------------------------------------------------------------
(* Strings are sequences of characters; a UUID's text is one token.        *)

RECURSIVE SplitFrom(_, _, _)
SplitFrom(s, i, acc) ==
    IF i > Len(s) THEN <<acc>>
    ELSE IF s[i] = "," THEN <<acc>> \o SplitFrom(s, i + 1, <<>>)
    ELSE SplitFrom(s, i + 1, Append(acc, s[i]))

\* str::split(','): "" splits into one empty segment
Split(s) == SplitFrom(s, 1, <<>>)

EmptyString == <<>>

Uuids == {"nil", "g1", "g2", "p1", "d1", "d2"}
NilUuid == "nil"
GroupIds == {"g1", "g2"}
PointIds == {"p1"}

\* Uuid::to_string(): the canonical hyphenated form
UuidToString(u) == <<u>>

\* str::parse::<Uuid>(): accepts the canonical form and the urn:uuid: form
ParseUuid(s) ==
    IF Len(s) = 1 /\ s[1] \in Uuids THEN Some(s[1])
    ELSE IF Len(s) = 2 /\ s[1] = "urn:uuid:" /\ s[2] \in Uuids THEN Some(s[2])
    ELSE None

------------------------------------------------------------------------------
(* Payload values (qdrant Value / serde_json Value)                        *)

\* a value is its kind followed by its contents
StrV(t) == <<"string">> \o t
ListV(s) == <<"list">> \o s
IntV(n) == <<"integer", n>>
ObjV(t) == <<"object">> \o t
Kind(value) == value[1]
Items(value) == Tail(value)

\* json! of Vec<&str>
StrList(segs) == ListV([i \in 1..Len(segs) |-> StrV(segs[i])])

\* json! of Vec<Uuid> / Value::from(Vec<String>) of the ids' to_string()
UuidList(ids) == ListV([i \in 1..Len(ids) |-> StrV(UuidToString(ids[i]))])

Fields == {"tag_set", "link", "metadata", "time_stamp", "dataset_id", "group_ids"}

\* payload.get(field).unwrap_or(default)
GetOr(payload, f, d) == IF f \in DOMAIN payload THEN payload[f] ELSE d

MkPayload(tag, link, meta, ts, ds, groups) ==
    [f \in Fields |->
        CASE f = "tag_set" -> tag
          [] f = "link" -> link
          [] f = "metadata" -> meta
          [] f = "time_stamp" -> ts
          [] f = "dataset_id" -> ds
          [] OTHER -> groups]

\* Option<serde_json::Value>::unwrap_or_default() for the metadata field
DefaultMetadata == ObjV(<<>>)

\* Option<NaiveDateTime>::unwrap_or_default().timestamp(): the epoch
DefaultTimestamp == IntV(0)

\* the json!({...}) built from a ChunkMetadata (insert and update with new metadata)
MetadataPayload(meta, dataset_id, groups) ==
    MkPayload(StrList(Split(UnwrapOr(meta.tag_set, EmptyString))),
              StrList(Split(UnwrapOr(meta.link, EmptyString))),
              UnwrapOr(meta.metadata, DefaultMetadata),
              IF meta.time_stamp.some THEN IntV(meta.time_stamp.v) ELSE DefaultTimestamp,
              StrV(UuidToString(dataset_id)),
              groups)

\* a copy that forgets the fetched time_stamp
CopiedPayloadNoTimestamp(payload, groups) ==
    MkPayload(GetOr(payload, "tag_set", StrV(EmptyString)),
              GetOr(payload, "link", StrV(EmptyString)),
              GetOr(payload, "metadata", StrV(EmptyString)),
              StrV(EmptyString),
              GetOr(payload, "dataset_id", StrV(EmptyString)),
              groups)

\* the json!({...}) that copies the fetched point's fields
CopiedPayload(payload, groups) ==
    MkPayload(GetOr(payload, "tag_set", StrV(EmptyString)),
              GetOr(payload, "link", StrV(EmptyString)),
              GetOr(payload, "metadata", StrV(EmptyString)),
              GetOr(payload, "time_stamp", StrV(EmptyString)),
              GetOr(payload, "dataset_id", StrV(EmptyString)),
              groups)

------------------------------------------------------------------------------
(* Dense-vector routing                                                     *)

\* a routing whose fallback arm picks a space instead of rejecting the length
VectorNameFallback(len) ==
    CASE len = 384 -> Some("384_vectors")
      [] len = 512 -> Some("512_vectors")
      [] len = 768 -> Some("768_vectors")
      [] len = 1024 -> Some("1024_vectors")
      [] OTHER -> Some("1536_vectors")

VectorName(len) ==
    CASE len = 384 -> Some("384_vectors")
      [] len = 512 -> Some("512_vectors")
      [] len = 768 -> Some("768_vectors")
      [] len = 1024 -> Some("1024_vectors")
      [] len = 1536 -> Some("1536_vectors")
      [] OTHER -> None

SparseName == "sparse_vectors"

\* HashMap::from([(vector_name, dense), ("sparse_vectors", splade)])
VectorPayload(name, dense, sparse) ==
    [n \in {name, SparseName} |-> IF n = name THEN dense ELSE sparse]

------------------------------------------------------------------------------
(* The backend's point store                                                *)

\* upsert: the point (vectors and payload) replaces whatever is stored under the id
BackendUpsert(pts, id, point) ==
    [pts EXCEPT ![id] = Some([vectors |-> point.vectors, payload |-> point.payload])]

\* overwrite_payload: the payload of a stored point is replaced, its vectors kept
BackendOverwritePayload(pts, id, payload) ==
    IF pts[id].some
    THEN [pts EXCEPT ![id] = Some([vectors |-> pts[id].v.vectors, payload |-> payload])]
    ELSE pts

\* get_points(.., with_vectors = false, with_payload = true).result.first()
BackendGetPoint(pts, id) == IF pts[id].some THEN Some(pts[id].v.payload) ELSE None

------------------------------------------------------------------------------
(* Callers                                                                  *)

Callers == {"c1", "c2"}

Idle ==
    [op |-> "idle", pc |-> "idle", args |-> <<>>, cur |-> None,
     calls |-> <<>>, result |-> "none", out |-> <<>>]

CanStart(c) == callers[c].pc = "idle"

\* the handler has returned: the caller takes the result and is free to call again
NextCall(c) ==
    /\ callers[c].pc = "done"
    /\ callers' = [callers EXCEPT ![c] = Idle]
    /\ startedAfter' = [startedAfter EXCEPT ![c] = FALSE]
    /\ UNCHANGED <<points, collections, inserted>>

Started(op, args, pc) == [Idle EXCEPT !.op = op, !.args = args, !.pc = pc]

Returned(op, args, result) ==
    [Idle EXCEPT !.op = op, !.args = args, !.pc = "done", !.result = result]

\* get_qdrant_connection(..).await.map_err(..)?
Connect(connected, op, args, next) ==
    IF connected THEN next ELSE Returned(op, args, "ConnectFailed")

Return(c, call, result) ==
    [callers EXCEPT ![c].calls = Append(@, call), ![c].pc = "done", ![c].result = result]

------------------------------------------------------------------------------
(* create_new_qdrant_point_query                                            *)

\* an insert payload that writes a missing group_ids argument as null
InsertPayloadNullable(a) ==
    MetadataPayload(a.chunk_metadata, a.chunk_metadata.dataset_id,
                    IF a.group_ids.some THEN UuidList(a.group_ids.v) ELSE <<"null">>)

InsertPayload(a) ==
    MetadataPayload(a.chunk_metadata, a.chunk_metadata.dataset_id,
                    UuidList(UnwrapOr(a.group_ids, <<>>)))

InsertStart(c, id, vec, sparse, meta, groups, connected) ==
    /\ CanStart(c)
    /\ LET a == [point_id |-> id, embedding_vector |-> vec, chunk_metadata |-> meta,
                 splade_vector |-> sparse, group_ids |-> groups]
       IN callers' = [callers EXCEPT ![c] =
              Connect(connected, "insert", a,
                  IF VectorName(vec.len).some
                  THEN Started("insert", a, "upsert_points_blocking")
                  ELSE Returned("insert", a, "InvalidVectorSize"))]
    /\ UNCHANGED <<points, collections, inserted, startedAfter>>

InsertUpsert(c, ok) ==
    /\ callers[c].op = "insert"
    /\ callers[c].pc = "upsert_points_blocking"
    /\ LET a == callers[c].args
           point == [id |-> UuidToString(a.point_id),
                     vectors |-> VectorPayload(VectorName(a.embedding_vector.len).v,
                                               a.embedding_vector, a.splade_vector),
                     payload |-> InsertPayload(a)]
           call == [call |-> "upsert_points", wait |-> TRUE, point |-> point, ok |-> ok]
       IN /\ callers' = Return(c, call, IF ok THEN "Ok" ELSE "UpsertFailed")
          /\ points' = IF ok THEN BackendUpsert(points, a.point_id, point) ELSE points
          /\ inserted' = IF ok THEN [inserted EXCEPT ![a.point_id] = Some(point.payload)]
                         ELSE inserted
    /\ UNCHANGED <<collections, startedAfter>>

------------------------------------------------------------------------------
(* update_qdrant_point_query                                                *)

EmptyList == ListV(<<>>)

\* a payload construction whose last arm writes defaults instead of failing
UpdatePayloadDefaulting(a, cur) ==
    IF a.metadata.some
    THEN Some(MetadataPayload(a.metadata.v, a.dataset_id,
                  IF a.group_ids.some THEN UuidList(a.group_ids.v)
                  ELSE IF cur.some THEN GetOr(cur.v, "group_ids", EmptyList)
                  ELSE EmptyList))
    ELSE IF cur.some
    THEN Some(CopiedPayload(cur.v, GetOr(cur.v, "group_ids", EmptyList)))
    ELSE Some(CopiedPayload([f \in {} |-> EmptyList], EmptyList))

\* a payload construction that takes an empty group_ids argument for a missing one
UpdatePayloadNonEmpty(a, cur) ==
    IF a.metadata.some
    THEN Some(MetadataPayload(a.metadata.v, a.dataset_id,
                  IF a.group_ids.some /\ a.group_ids.v # <<>> THEN UuidList(a.group_ids.v)
                  ELSE IF cur.some THEN GetOr(cur.v, "group_ids", EmptyList)
                  ELSE EmptyList))
    ELSE IF cur.some
    THEN Some(CopiedPayload(cur.v, GetOr(cur.v, "group_ids", EmptyList)))
    ELSE None

\* the payload of the update: Some(payload), or None for "No metadata points found"
UpdatePayload(a, cur) ==
    IF a.metadata.some
    THEN Some(MetadataPayload(a.metadata.v, a.dataset_id,
                  IF a.group_ids.some THEN UuidList(a.group_ids.v)
                  ELSE IF cur.some THEN GetOr(cur.v, "group_ids", EmptyList)
                  ELSE EmptyList))
    ELSE IF cur.some
    THEN Some(CopiedPayload(cur.v, GetOr(cur.v, "group_ids", EmptyList)))
    ELSE None

UpdateStart(c, id, meta, vec, groups, dataset, sparse, connected) ==
    /\ CanStart(c)
    /\ LET a == [point_id |-> id, metadata |-> meta, updated_vector |-> vec,
                 group_ids |-> groups, dataset_id |-> dataset, splade_vector |-> sparse]
       IN callers' = [callers EXCEPT ![c] =
              Connect(connected, "update", a, Started("update", a, "get_points"))]
    /\ UNCHANGED <<points, collections, inserted, startedAfter>>

\* an update that takes the payload-only overwrite even when a vector is supplied
UpdateAfterFetchPayloadOnly(a, cur) ==
    IF ~UpdatePayload(a, cur).some THEN [pc |-> "done", result |-> "NotFound"]
    ELSE IF a.updated_vector.some /\ ~VectorName(a.updated_vector.v.len).some
    THEN [pc |-> "done", result |-> "InvalidVectorSize"]
    ELSE [pc |-> "overwrite_payload", result |-> "none"]

\* what follows a successful fetch, up to the next backend call
UpdateAfterFetch(a, cur) ==
    IF ~UpdatePayload(a, cur).some THEN [pc |-> "done", result |-> "NotFound"]
    ELSE IF a.updated_vector.some
    THEN IF VectorName(a.updated_vector.v.len).some
         THEN [pc |-> "upsert_points", result |-> "none"]
         ELSE [pc |-> "done", result |-> "InvalidVectorSize"]
    ELSE [pc |-> "overwrite_payload", result |-> "none"]

\* a fetch whose failure is taken for an empty reply
UpdateFetchLenient(c, ok) ==
    /\ callers[c].op = "update"
    /\ callers[c].pc = "get_points"
    /\ LET a == callers[c].args
           cur == IF ok THEN BackendGetPoint(points, a.point_id) ELSE None
           call == [call |-> "get_points", id |-> UuidToString(a.point_id), ok |-> ok]
           after == UpdateAfterFetch(a, cur)
       IN callers' = [callers EXCEPT ![c].calls = Append(@, call), ![c].cur = cur,
                                     ![c].pc = after.pc, ![c].result = after.result]
    /\ UNCHANGED <<points, collections, inserted, startedAfter>>

UpdateFetch(c, ok) ==
    /\ callers[c].op = "update"
    /\ callers[c].pc = "get_points"
    /\ LET a == callers[c].args
           cur == BackendGetPoint(points, a.point_id)
           call == [call |-> "get_points", id |-> UuidToString(a.point_id), ok |-> ok]
           after == UpdateAfterFetch(a, cur)
       IN callers' =
              IF ok
              THEN [callers EXCEPT ![c].calls = Append(@, call), ![c].cur = cur,
                                   ![c].pc = after.pc, ![c].result = after.result]
              ELSE Return(c, call, "GetPointsFailed")
    /\ UNCHANGED <<points, collections, inserted, startedAfter>>

UpdateUpsert(c, ok) ==
    /\ callers[c].op = "update"
    /\ callers[c].pc = "upsert_points"
    /\ LET a == callers[c].args
           point == [id |-> UuidToString(a.point_id),
                     vectors |-> VectorPayload(VectorName(a.updated_vector.v.len).v,
                                               a.updated_vector.v, a.splade_vector),
                     payload |-> UpdatePayload(a, callers[c].cur).v]
           call == [call |-> "upsert_points", wait |-> FALSE, point |-> point, ok |-> ok]
       IN /\ callers' = Return(c, call, IF ok THEN "Ok" ELSE "UpsertFailed")
          /\ points' = IF ok THEN BackendUpsert(points, a.point_id, point) ELSE points
          /\ inserted' = IF ok /\ a.metadata.some
                         THEN [inserted EXCEPT ![a.point_id] = None]
                         ELSE inserted
    /\ UNCHANGED <<collections, startedAfter>>

UpdateOverwrite(c, ok) ==
    /\ callers[c].op = "update"
    /\ callers[c].pc = "overwrite_payload"
    /\ LET a == callers[c].args
           payload == UpdatePayload(a, callers[c].cur).v
           call == [call |-> "overwrite_payload", wait |-> FALSE,
                    id |-> UuidToString(a.point_id), payload |-> payload, ok |-> ok]
       IN /\ callers' = Return(c, call, IF ok THEN "Ok" ELSE "PayloadUpdateFailed")
          /\ points' = IF ok THEN BackendOverwritePayload(points, a.point_id, payload)
                       ELSE points
          /\ inserted' = IF ok /\ a.metadata.some
                         THEN [inserted EXCEPT ![a.point_id] = None]
                         ELSE inserted
    /\ UNCHANGED <<collections, startedAfter>>

------------------------------------------------------------------------------
(* add_bookmark_to_qdrant_query / remove_bookmark_from_qdrant_query         *)

\* .iter_list().unwrap().map(|id| id.as_str().unwrap_or("").parse().unwrap_or_default())
DecodeGroupIds(value) ==
    [i \in 1..Len(Items(value)) |->
        IF Kind(Items(value)[i]) = "string"
        THEN UnwrapOr(ParseUuid(Items(Items(value)[i])), NilUuid)
        ELSE NilUuid]

\* iter_list() is None (and unwrap() aborts) on a value that is not a list
DecodeAborts(payload) ==
    "group_ids" \in DOMAIN payload /\ Kind(payload["group_ids"]) # "list"

\* an add that skips an id the list already holds
AddGroupIdsOnce(payload, group_id) ==
    IF "group_ids" \in DOMAIN payload
    THEN IF \E i \in 1..Len(DecodeGroupIds(payload["group_ids"])) :
                DecodeGroupIds(payload["group_ids"])[i] = group_id
         THEN DecodeGroupIds(payload["group_ids"])
         ELSE Append(DecodeGroupIds(payload["group_ids"]), group_id)
    ELSE <<group_id>>

AddGroupIds(payload, group_id) ==
    IF "group_ids" \in DOMAIN payload
    THEN Append(DecodeGroupIds(payload["group_ids"]), group_id)
    ELSE <<group_id>>

\* a remove that drops the first matching entry only
RemoveGroupIdsFirst(payload, group_id) ==
    IF "group_ids" \in DOMAIN payload
    THEN LET ids == DecodeGroupIds(payload["group_ids"])
             hits == {i \in 1..Len(ids) : ids[i] = group_id}
         IN IF hits = {} THEN ids
            ELSE LET first == CHOOSE i \in hits : \A j \in hits : i <= j
                 IN SubSeq(ids, 1, first - 1) \o SubSeq(ids, first + 1, Len(ids))
    ELSE <<>>

RemoveGroupIds(payload, group_id) ==
    IF "group_ids" \in DOMAIN payload
    THEN SelectSeq(DecodeGroupIds(payload["group_ids"]), LAMBDA id : id # group_id)
    ELSE <<>>

AddPayload(payload, group_id) ==
    CopiedPayload(payload, UuidList(AddGroupIds(payload, group_id)))

RemovePayload(payload, group_id) ==
    CopiedPayload(payload, UuidList(RemoveGroupIds(payload, group_id)))

\* the bound on the stored list: an add starts only below it
RoomToAdd(id) ==
    IF ~points[id].some THEN TRUE
    ELSE IF "group_ids" \notin DOMAIN points[id].v.payload THEN TRUE
    ELSE IF Kind(points[id].v.payload["group_ids"]) # "list" THEN TRUE
    ELSE Len(Items(points[id].v.payload["group_ids"])) < MaxGroups

MemberStart(c, op, id, group_id, connected) ==
    /\ CanStart(c)
    /\ LET a == [point_id |-> id, group_id |-> group_id]
       IN callers' = [callers EXCEPT ![c] =
              Connect(connected, op, a, Started(op, a, "get_points"))]
    /\ UNCHANGED <<points, collections, inserted, startedAfter>>

\* fetch, vec.first(), and the decoding of group_ids
MemberFetch(c, op, ok) ==
    /\ callers[c].op = op
    /\ callers[c].pc = "get_points"
    /\ LET a == callers[c].args
           cur == BackendGetPoint(points, a.point_id)
           call == [call |-> "get_points", id |-> UuidToString(a.point_id), ok |-> ok]
       IN callers' =
              IF ~ok THEN Return(c, call, "GetPointsFailed")
              ELSE IF ~cur.some THEN Return(c, call, "NotFound")
              ELSE IF DecodeAborts(cur.v)
              THEN [Return(c, call, "Panic") EXCEPT ![c].cur = cur]
              ELSE [callers EXCEPT ![c].calls = Append(@, call), ![c].cur = cur,
                                   ![c].pc = "overwrite_payload"]
    /\ UNCHANGED <<points, collections, inserted, startedAfter>>

MemberOverwrite(c, op, payload, ok) ==
    /\ callers[c].op = op
    /\ callers[c].pc = "overwrite_payload"
    /\ LET a == callers[c].args
           call == [call |-> "overwrite_payload", wait |-> FALSE,
                    id |-> UuidToString(a.point_id), payload |-> payload, ok |-> ok]
       IN /\ callers' = Return(c, call, IF ok THEN "Ok" ELSE "PayloadUpdateFailed")
          /\ points' = IF ok THEN BackendOverwritePayload(points, a.point_id, payload)
                       ELSE points
          /\ inserted' = IF ok THEN [inserted EXCEPT ![a.point_id] = None] ELSE inserted
    /\ UNCHANGED <<collections, startedAfter>>

AddStart(c, id, group_id, connected) ==
    /\ RoomToAdd(id)
    /\ MemberStart(c, "add", id, group_id, connected)

AddFetch(c, ok) ==
    /\ callers[c].op = "add"
    /\ callers[c].pc = "get_points"
    /\ RoomToAdd(callers[c].args.point_id)
    /\ MemberFetch(c, "add", ok)

\* an add that edits the payload stored at the time of the write
AddOverwriteStored(c, ok) ==
    /\ callers[c].op = "add"
    /\ callers[c].cur.some
    /\ MemberOverwrite(c, "add",
                       AddPayload(points[callers[c].args.point_id].v.payload,
                                  callers[c].args.group_id), ok)

AddOverwrite(c, ok) ==
    /\ callers[c].op = "add"
    /\ callers[c].cur.some
    /\ MemberOverwrite(c, "add",
                       AddPayload(callers[c].cur.v, callers[c].args.group_id), ok)

RemoveStart(c, id, group_id, connected) ==
    MemberStart(c, "remove", id, group_id, connected)

RemoveFetch(c, ok) == MemberFetch(c, "remove", ok)

RemoveOverwrite(c, ok) ==
    /\ callers[c].op = "remove"
    /\ callers[c].cur.some
    /\ MemberOverwrite(c, "remove",
                       RemovePayload(callers[c].cur.v, callers[c].args.group_id), ok)

------------------------------------------------------------------------------
(* Fixed-width integers: a u64 or u32 is its little-endian digits in base  *)
(* 256; the natural-number operators are exact, the Rust operators wrap or  *)
(* abort on overflow as the build's overflow checks decide.                 *)

Base == 256
U64Limbs == 8
U32Limbs == 4

RECURSIVE Limbs(_, _)
Limbs(n, k) == IF k = 0 THEN <<>> ELSE <<n % Base>> \o Limbs(n \div Base, k - 1)

Pad(a, k) == IF Len(a) >= k THEN a ELSE a \o [i \in 1..(k - Len(a)) |-> 0]
Truncate(a, k) == SubSeq(Pad(a, k), 1, k)
Fits(a, k) == \A i \in 1..Len(a) : i > k => a[i] = 0
NumEq(a, b) == Pad(a, Len(b)) = Pad(b, Len(a))

RECURSIVE AddFrom(_, _, _, _)
AddFrom(a, b, i, carry) ==
    IF i > Len(a) THEN <<carry>>
    ELSE <<(a[i] + b[i] + carry) % Base>>
         \o AddFrom(a, b, i + 1, (a[i] + b[i] + carry) \div Base)

NatAdd(a, b) == AddFrom(Pad(a, Len(b)), Pad(b, Len(a)), 1, 0)

RECURSIVE ScaleFrom(_, _, _, _)
ScaleFrom(a, d, i, carry) ==
    IF i > Len(a) THEN <<carry>>
    ELSE <<(a[i] * d + carry) % Base>>
         \o ScaleFrom(a, d, i + 1, (a[i] * d + carry) \div Base)

RECURSIVE MulFrom(_, _, _)
MulFrom(a, b, i) ==
    IF i > Len(b) THEN <<0>>
    ELSE NatAdd(ScaleFrom(a, b[i], 1, 0), <<0>> \o MulFrom(a, b, i + 1))

NatMul(a, b) == MulFrom(a, b, 1)

RECURSIVE LessFrom(_, _, _)
LessFrom(a, b, i) ==
    IF i = 0 THEN FALSE
    ELSE IF a[i] # b[i] THEN a[i] < b[i]
    ELSE LessFrom(a, b, i - 1)

NatLess(a, b) == LessFrom(Pad(a, Len(b)), Pad(b, Len(a)), Len(Pad(a, Len(b))))

\* a - b modulo 2^(8k)
WrappingSub(a, b, k) ==
    Truncate(NatAdd(NatAdd(Truncate(a, k), [i \in 1..k |-> Base - 1 - Truncate(b, k)[i]]),
                    <<1>>), k)

U64(n) == Limbs(n, U64Limbs)
U32(n) == Limbs(n, U32Limbs)

\* a - b on u64: aborts under overflow checks, wraps without them
SubU64(a, b, checks) ==
    IF NatLess(a, b) /\ checks THEN None ELSE Some(WrappingSub(a, b, U64Limbs))

\* a * b on integers of k limbs
MulWidth(a, b, k, checks) ==
    LET product == NatMul(a, b)
    IN IF ~Fits(product, k) /\ checks THEN None ELSE Some(Truncate(product, k))

\* `x as u32`
AsU32(a) == Truncate(a, U32Limbs)

\* u32::try_from(u64)
TryIntoU32(a) == IF Fits(a, U32Limbs) THEN Some(Truncate(a, U32Limbs)) ELSE None

PageStride == 10

\* an offset that counts pages from zero
SearchOffsetFromZero(page, checks) ==
    MulWidth(page, U64(PageStride), U64Limbs, checks)

\* (page - 1) * 10
SearchOffset(page, checks) ==
    LET previous == SubU64(page, U64(1), checks)
    IN IF ~previous.some THEN None
       ELSE MulWidth(previous.v, U64(PageStride), U64Limbs, checks)

\* a group limit that leaves the page out
GroupLimitOnePage(limit, page, checks) == Some(Truncate(limit, U32Limbs))

\* limit * page as u32
GroupLimit(limit, page, checks) == MulWidth(limit, AsU32(page), U32Limbs, checks)

------------------------------------------------------------------------------
(* Result normalisation                                                     *)

\* an identifier decoding that takes the nil UUID for a string that is no UUID
HitPointIdOrNil(hit) ==
    IF ~hit.id.some THEN None
    ELSE IF hit.id.v[1] = "uuid" THEN Some(UnwrapOr(ParseUuid(Tail(hit.id.v)), NilUuid))
    ELSE None

\* point.id?.point_id_options? : Uuid(id) => parse_str(id).ok()?, Num(_) => None
HitPointId(hit) ==
    IF ~hit.id.some THEN None
    ELSE IF hit.id.v[1] = "uuid" THEN ParseUuid(Tail(hit.id.v))
    ELSE None

RECURSIVE SearchResults(_)
SearchResults(hits) ==
    IF hits = <<>> THEN <<>>
    ELSE IF HitPointId(Head(hits)).some
    THEN <<[score |-> Head(hits).score, point_id |-> HitPointId(Head(hits)).v]>>
         \o SearchResults(Tail(hits))
    ELSE SearchResults(Tail(hits))

RECURSIVE RecommendedIds(_)
RecommendedIds(hits) ==
    IF hits = <<>> THEN <<>>
    ELSE IF HitPointId(Head(hits)).some
    THEN <<HitPointId(Head(hits)).v>> \o RecommendedIds(Tail(hits))
    ELSE RecommendedIds(Tail(hits))

\* point.id?.kind? : StringValue(id) => from_str(id).unwrap_or_default(), _ => dropped
GroupId(group) ==
    IF ~group.id.some THEN None
    ELSE IF group.id.v[1] = "string" THEN Some(UnwrapOr(ParseUuid(Tail(group.id.v)), NilUuid))
    ELSE None

RECURSIVE GroupResults(_)
GroupResults(groups) ==
    IF groups = <<>> THEN <<>>
    ELSE IF GroupId(Head(groups)).some
    THEN <<[group_id |-> GroupId(Head(groups)).v, hits |-> SearchResults(Head(groups).hits)]>>
         \o GroupResults(Tail(groups))
    ELSE GroupResults(Tail(groups))

------------------------------------------------------------------------------
(* search_qdrant_query / search_over_groups_query                           *)

QueryVectorName(vector) ==
    IF vector.type = "Sparse" THEN Some(SparseName) ELSE VectorName(vector.len)

SearchStart(c, page, filter, limit, score_threshold, vector, connected, checks) ==
    /\ CanStart(c)
    /\ LET a == [page |-> page, filter |-> filter, limit |-> limit,
                 score_threshold |-> score_threshold, vector |-> vector]
           offset == SearchOffset(page, checks)
       IN callers' = [callers EXCEPT ![c] =
              Connect(connected, "search", a,
                  IF ~QueryVectorName(vector).some
                  THEN Returned("search", a, "InvalidVectorSize")
                  ELSE IF ~offset.some
                  THEN Returned("search", a, "Panic")
                  ELSE [Started("search", a, "search_points") EXCEPT !.cur = offset])]
    /\ UNCHANGED <<points, collections, inserted, startedAfter>>

SearchCall(c, ok, response) ==
    /\ callers[c].op = "search"
    /\ callers[c].pc = "search_points"
    /\ LET a == callers[c].args
           call == [call |-> "search_points",
                    vector |-> a.vector,
                    sparse_indices |-> a.vector.type = "Sparse",
                    vector_name |-> QueryVectorName(a.vector),
                    limit |-> a.limit,
                    score_threshold |-> a.score_threshold,
                    offset |-> callers[c].cur,
                    filter |-> Some(a.filter),
                    reply |-> IF ok THEN Some(response) ELSE None,
                    ok |-> ok]
       IN callers' =
              IF ok
              THEN [Return(c, call, "Ok") EXCEPT ![c].out = SearchResults(response)]
              ELSE Return(c, call, "SearchFailed")
    /\ UNCHANGED <<points, collections, inserted, startedAfter>>

SearchGroupsStart(c, page, filter, limit, score_threshold, group_size, vector, connected, checks) ==
    /\ CanStart(c)
    /\ LET a == [page |-> page, filter |-> filter, limit |-> limit,
                 score_threshold |-> score_threshold, group_size |-> group_size,
                 vector |-> vector]
           requested == GroupLimit(limit, page, checks)
       IN callers' = [callers EXCEPT ![c] =
              Connect(connected, "search_groups", a,
                  IF ~QueryVectorName(vector).some
                  THEN Returned("search_groups", a, "InvalidVectorSize")
                  ELSE IF ~requested.some
                  THEN Returned("search_groups", a, "Panic")
                  ELSE [Started("search_groups", a, "search_groups")
                            EXCEPT !.cur = requested])]
    /\ UNCHANGED <<points, collections, inserted, startedAfter>>

\* response: Some(groups), or None when the reply carries no result
SearchGroupsCall(c, ok, response) ==
    /\ callers[c].op = "search_groups"
    /\ callers[c].pc = "search_groups"
    /\ LET a == callers[c].args
           call == [call |-> "search_groups",
                    vector |-> a.vector,
                    sparse_indices |-> a.vector.type = "Sparse",
                    vector_name |-> QueryVectorName(a.vector),
                    limit |-> callers[c].cur.v,
                    score_threshold |-> a.score_threshold,
                    offset |-> None,
                    filter |-> Some(a.filter),
                    group_by |-> "group_ids",
                    group_size |-> a.group_size,
                    ok |-> ok]
       IN callers' =
              IF ~ok THEN Return(c, call, "SearchFailed")
              ELSE IF ~response.some THEN Return(c, call, "Panic")
              ELSE [Return(c, call, "Ok") EXCEPT ![c].out = GroupResults(response.v)]
    /\ UNCHANGED <<points, collections, inserted, startedAfter>>

------------------------------------------------------------------------------
(* recommend_qdrant_query / recommend_qdrant_groups_query                   *)

\* assemble_qdrant_filter(..).await? comes first, then the connection
RecommendStart(c, positive_ids, negative_ids, filters, limit, dataset_id, embedding_size, assembled, connected) ==
    /\ CanStart(c)
    /\ LET a == [positive_ids |-> positive_ids, negative_ids |-> negative_ids,
                 filters |-> filters, limit |-> limit, dataset_id |-> dataset_id,
                 embedding_size |-> embedding_size]
       IN callers' = [callers EXCEPT ![c] =
              IF ~assembled THEN Returned("recommend", a, "FilterFailed")
              ELSE Connect(connected, "recommend", a,
                       IF VectorName(embedding_size).some
                       THEN Started("recommend", a, "recommend")
                       ELSE Returned("recommend", a, "InvalidVectorSize"))]
    /\ UNCHANGED <<points, collections, inserted, startedAfter>>

RecommendCall(c, ok, response) ==
    /\ callers[c].op = "recommend"
    /\ callers[c].pc = "recommend"
    /\ LET a == callers[c].args
           call == [call |-> "recommend",
                    positive |-> [i \in 1..Len(a.positive_ids) |->
                                     UuidToString(a.positive_ids[i])],
                    negative |-> [i \in 1..Len(a.negative_ids) |->
                                     UuidToString(a.negative_ids[i])],
                    filter |-> Some(<<a.filters, a.dataset_id>>),
                    limit |-> a.limit,
                    using |-> VectorName(a.embedding_size),
                    ok |-> ok]
       IN callers' =
              IF ok
              THEN [Return(c, call, "Ok") EXCEPT ![c].out = RecommendedIds(response)]
              ELSE Return(c, call, "RecommendFailed")
    /\ UNCHANGED <<points, collections, inserted, startedAfter>>

\* the connection comes first, then the filter; limit.try_into().unwrap() aborts
\* on a limit that does not fit 32 bits
RecommendGroupsStart(c, positive_ids, negative_ids, filters, limit, group_size, dataset_id, embedding_size, assembled, connected) ==
    /\ CanStart(c)
    /\ LET a == [positive_ids |-> positive_ids, negative_ids |-> negative_ids,
                 filters |-> filters, limit |-> limit, group_size |-> group_size,
                 dataset_id |-> dataset_id, embedding_size |-> embedding_size]
       IN callers' = [callers EXCEPT ![c] =
              Connect(connected, "recommend_groups", a,
                  IF ~assembled THEN Returned("recommend_groups", a, "FilterFailed")
                  ELSE IF ~VectorName(embedding_size).some
                  THEN Returned("recommend_groups", a, "InvalidVectorSize")
                  ELSE IF ~TryIntoU32(limit).some
                  THEN Returned("recommend_groups", a, "Panic")
                  ELSE [Started("recommend_groups", a, "recommend_groups")
                            EXCEPT !.cur = TryIntoU32(limit)])]
    /\ UNCHANGED <<points, collections, inserted, startedAfter>>

RecommendGroupsCall(c, ok, response) ==
    /\ callers[c].op = "recommend_groups"
    /\ callers[c].pc = "recommend_groups"
    /\ LET a == callers[c].args
           call == [call |-> "recommend_groups",
                    positive |-> [i \in 1..Len(a.positive_ids) |->
                                     UuidToString(a.positive_ids[i])],
                    negative |-> [i \in 1..Len(a.negative_ids) |->
                                     UuidToString(a.negative_ids[i])],
                    filter |-> Some(<<a.filters, a.dataset_id>>),
                    limit |-> callers[c].cur.v,
                    using |-> VectorName(a.embedding_size),
                    group_by |-> "group_ids",
                    group_size |-> a.group_size,
                    ok |-> ok]
       IN callers' =
              IF ~ok THEN Return(c, call, "RecommendFailed")
              ELSE IF ~response.some THEN Return(c, call, "Panic")
              ELSE [Return(c, call, "Ok") EXCEPT ![c].out = GroupResults(response.v)]
    /\ UNCHANGED <<points, collections, inserted, startedAfter>>

------------------------------------------------------------------------------
(* create_new_qdrant_collection_query                                       *)

CollectionNames == {"coll_a", "coll_b"}

\* Some(QuantizationConfig { Binary { always_ram: true } }) when quantize
QuantizationConfig(quantize) ==
    IF quantize THEN Some([quantization |-> "Binary", always_ram |-> TRUE]) ELSE None

VectorParams(size, quantization_config) ==
    [size |-> size, distance |-> "Cosine", hnsw_config |-> None,
     quantization_config |-> quantization_config, on_disk |-> None]

\* a request that quantizes every dense space
CreateCollectionRequestUniform(name, quantize) ==
    [collection_name |-> name,
     vectors_config |->
        [n \in {"384_vectors", "512_vectors", "768_vectors", "1024_vectors", "1536_vectors"} |->
            CASE n = "384_vectors" -> VectorParams(384, QuantizationConfig(quantize))
              [] n = "512_vectors" -> VectorParams(512, QuantizationConfig(quantize))
              [] n = "768_vectors" -> VectorParams(768, QuantizationConfig(quantize))
              [] n = "1024_vectors" -> VectorParams(1024, QuantizationConfig(quantize))
              [] OTHER -> VectorParams(1536, QuantizationConfig(quantize))],
     hnsw_config |-> [payload_m |-> Some(16), m |-> Some(0)],
     sparse_vectors_config |-> [n \in {SparseName} |-> [on_disk |-> Some(FALSE)]]]

\* the CreateCollection request
CreateCollectionRequest(name, quantize) ==
    [collection_name |-> name,
     vectors_config |->
        [n \in {"384_vectors", "512_vectors", "768_vectors", "1024_vectors", "1536_vectors"} |->
            CASE n = "384_vectors" -> VectorParams(384, QuantizationConfig(quantize))
              [] n = "512_vectors" -> VectorParams(512, None)
              [] n = "768_vectors" -> VectorParams(768, QuantizationConfig(quantize))
              [] n = "1024_vectors" -> VectorParams(1024, QuantizationConfig(quantize))
              [] OTHER -> VectorParams(1536, QuantizationConfig(quantize))],
     hnsw_config |-> [payload_m |-> Some(16), m |-> Some(0)],
     sparse_vectors_config |-> [n \in {SparseName} |-> [on_disk |-> Some(FALSE)]]]

\* the field indexes, in the order the code creates them
FieldIndexes ==
    << [field |-> "link", type |-> "Text"],
       [field |-> "tag_set", type |-> "Text"],
       [field |-> "dataset_id", type |-> "Keyword"],
       [field |-> "metadata", type |-> "Keyword"],
       [field |-> "time_stamp", type |-> "Integer"],
       [field |-> "group_ids", type |-> "Keyword"] >>

CreateStart(c, name, quantize, connected) ==
    /\ CanStart(c)
    /\ LET a == [qdrant_collection |-> name, quantize |-> quantize]
       IN callers' = [callers EXCEPT ![c] =
              Connect(connected, "create", a, Started("create", a, "collection_info"))]
    /\ startedAfter' = [startedAfter EXCEPT ![c] = collections[name].some]
    /\ UNCHANGED <<points, collections, inserted>>

\* a creation that does not look at the reply of collection_info
CreateInfoIgnored(c, ok) ==
    /\ callers[c].op = "create"
    /\ callers[c].pc = "collection_info"
    /\ LET a == callers[c].args
           present == ok /\ collections[a.qdrant_collection].some
           call == [call |-> "collection_info", name |-> a.qdrant_collection,
                    ok |-> present]
       IN callers' = [callers EXCEPT ![c].calls = Append(@, call),
                                     ![c].pc = "create_collection"]
    /\ UNCHANGED <<points, collections, inserted, startedAfter>>

\* collection_info: only an Ok reply that carries a result ends the call; an error
\* reply (the collection is missing, or the call failed) falls through to creation
CreateInfo(c, ok) ==
    /\ callers[c].op = "create"
    /\ callers[c].pc = "collection_info"
    /\ LET a == callers[c].args
           present == ok /\ collections[a.qdrant_collection].some
           call == [call |-> "collection_info", name |-> a.qdrant_collection,
                    ok |-> present]
       IN callers' =
              IF present THEN Return(c, call, "AlreadyExists")
              ELSE [callers EXCEPT ![c].calls = Append(@, call),
                                   ![c].pc = "create_collection"]
    /\ UNCHANGED <<points, collections, inserted, startedAfter>>

\* a creation that goes on to the indexes when the backend says the name is taken
CreateCollectionTolerant(c, ok) ==
    /\ callers[c].op = "create"
    /\ callers[c].pc = "create_collection"
    /\ LET a == callers[c].args
           request == CreateCollectionRequest(a.qdrant_collection, a.quantize)
           taken == collections[a.qdrant_collection].some
           call == [call |-> "create_collection", request |-> request,
                    ok |-> ok /\ ~taken]
       IN IF ok
          THEN /\ collections' = IF taken THEN collections
                                 ELSE [collections EXCEPT ![a.qdrant_collection] =
                                          Some([config |-> request, indexes |-> <<>>])]
               /\ callers' = [callers EXCEPT ![c].calls = Append(@, call),
                                             ![c].pc = "create_field_index",
                                             ![c].cur = Some(1)]
          ELSE /\ collections' = collections
               /\ callers' = Return(c, call, "CreateFailed")
    /\ UNCHANGED <<points, inserted, startedAfter>>

\* create_collection: the backend rejects a name it holds ("already exists"); any
\* other failure is "Failed to create Collection"
CreateCollection(c, ok) ==
    /\ callers[c].op = "create"
    /\ callers[c].pc = "create_collection"
    /\ LET a == callers[c].args
           request == CreateCollectionRequest(a.qdrant_collection, a.quantize)
           taken == collections[a.qdrant_collection].some
           call == [call |-> "create_collection", request |-> request,
                    ok |-> ok /\ ~taken]
       IN IF ok /\ ~taken
          THEN /\ collections' = [collections EXCEPT ![a.qdrant_collection] =
                      Some([config |-> request, indexes |-> <<>>])]
               /\ callers' = [callers EXCEPT ![c].calls = Append(@, call),
                                             ![c].pc = "create_field_index",
                                             ![c].cur = Some(1)]
          ELSE /\ collections' = collections
               /\ callers' = Return(c, call,
                      IF ok /\ taken THEN "AlreadyExists" ELSE "CreateFailed")
    /\ UNCHANGED <<points, inserted, startedAfter>>

\* an index creation that goes on to the next index after a failure
CreateIndexContinue(c, ok) ==
    /\ callers[c].op = "create"
    /\ callers[c].pc = "create_field_index"
    /\ LET a == callers[c].args
           k == callers[c].cur.v
           call == [call |-> "create_field_index", name |-> a.qdrant_collection,
                    index |-> FieldIndexes[k], ok |-> ok]
       IN /\ collections' =
                IF ok
                THEN [collections EXCEPT ![a.qdrant_collection] =
                         Some([@.v EXCEPT !.indexes = Append(@, FieldIndexes[k])])]
                ELSE collections
          /\ callers' = IF k = Len(FieldIndexes)
                        THEN Return(c, call, IF ok THEN "Ok" ELSE "IndexFailed")
                        ELSE [callers EXCEPT ![c].calls = Append(@, call),
                                             ![c].cur = Some(k + 1)]
    /\ UNCHANGED <<points, inserted, startedAfter>>

\* the k-th create_field_index
CreateIndex(c, ok) ==
    /\ callers[c].op = "create"
    /\ callers[c].pc = "create_field_index"
    /\ LET a == callers[c].args
           k == callers[c].cur.v
           call == [call |-> "create_field_index", name |-> a.qdrant_collection,
                    index |-> FieldIndexes[k], ok |-> ok]
       IN IF ok
          THEN /\ collections' = [collections EXCEPT ![a.qdrant_collection] =
                      Some([@.v EXCEPT !.indexes = Append(@, FieldIndexes[k])])]
               /\ callers' = IF k = Len(FieldIndexes)
                             THEN Return(c, call, "Ok")
                             ELSE [callers EXCEPT ![c].calls = Append(@, call),
                                                  ![c].cur = Some(k + 1)]
          ELSE /\ collections' = collections
               /\ callers' = Return(c, call, "IndexFailed")
    /\ UNCHANGED <<points, inserted, startedAfter>>

------------------------------------------------------------------------------
(* Inputs                                                                   *)

Dense(len, tag) == [len |-> len, tag |-> tag]
Sparse(tag) == [tag |-> tag]

Text_ab == <<"a", ",", "b">>
Text_x == <<"h", "t", "t", "p", ":", "/", "/", "x">>

Metadatas ==
    { [tag_set |-> Some(Text_ab), link |-> Some(Text_x), metadata |-> Some(ObjV(<<"m">>)),
       time_stamp |-> Some(7), dataset_id |-> "d1"],
      [tag_set |-> None, link |-> None, metadata |-> None,
       time_stamp |-> None, dataset_id |-> "d2"] }

InsertVectors == {Dense(384, "new"), Dense(383, "new")}
UpdateVectors == {None, Some(Dense(512, "upd")), Some(Dense(0, "upd"))}
InsertGroups == {None, Some(<<"g1">>)}
UpdateGroups == {None, Some(<<>>), Some(<<"g2">>)}

\* points the backend may hold that this code did not write
ForeignVectors == VectorPayload("384_vectors", Dense(384, "old"), Sparse("old"))

ForeignPayloads ==
    { [f \in {"tag_set"} |-> StrList(<<<<"t">>>>)],
      MkPayload(StrList(<<<<"t">>>>), StrList(<<<<"l">>>>), ObjV(<<"m">>), IntV(3),
                StrV(UuidToString("d1")), ListV(<<StrV(<<"zz">>)>>)),
      MkPayload(StrList(<<<<"t">>>>), StrList(<<<<"l">>>>), ObjV(<<"m">>), IntV(3),
                StrV(UuidToString("d1")), ListV(<<StrV(<<"urn:uuid:", "g2">>)>>)),
      MkPayload(StrList(<<<<"t">>>>), StrList(<<<<"l">>>>), ObjV(<<"m">>), IntV(3),
                StrV(UuidToString("d1")), StrV(UuidToString("g1"))) }

InitialPoints ==
    {None} \cup {Some([vectors |-> ForeignVectors, payload |-> p]) : p \in ForeignPayloads}

------------------------------------------------------------------------------
(* Specification of the point lifecycle: one caller, sequential calls       *)

Init ==
    /\ points \in [PointIds -> InitialPoints]
    /\ collections = [n \in CollectionNames |-> None]
    /\ callers = [c \in Callers |-> Idle]
    /\ inserted = [id \in PointIds |-> None]
    /\ startedAfter = [c \in Callers |-> FALSE]

PointNext(c) ==
    \/ \E id \in PointIds, vec \in InsertVectors, meta \in Metadatas,
          groups \in InsertGroups, connected \in BOOLEAN :
            InsertStart(c, id, vec, Sparse("new"), meta, groups, connected)
    \/ \E ok \in BOOLEAN : InsertUpsert(c, ok)
    \/ \E id \in PointIds, meta \in {None} \cup {Some(m) : m \in Metadatas},
          vec \in UpdateVectors, groups \in UpdateGroups, connected \in BOOLEAN :
            UpdateStart(c, id, meta, vec, groups, "d1", Sparse("upd"), connected)
    \/ \E ok \in BOOLEAN : UpdateFetch(c, ok)
    \/ \E ok \in BOOLEAN : UpdateUpsert(c, ok)
    \/ \E ok \in BOOLEAN : UpdateOverwrite(c, ok)
    \/ \E id \in PointIds, g \in GroupIds, connected \in BOOLEAN :
            AddStart(c, id, g, connected)
    \/ \E ok \in BOOLEAN : AddFetch(c, ok)
    \/ \E ok \in BOOLEAN : AddOverwrite(c, ok)
    \/ \E id \in PointIds, g \in GroupIds, connected \in BOOLEAN :
            RemoveStart(c, id, g, connected)
    \/ \E ok \in BOOLEAN : RemoveFetch(c, ok)
    \/ \E ok \in BOOLEAN : RemoveOverwrite(c, ok)
    \/ NextCall(c)

Next == PointNext("c1")

Spec == Init /\ [][Next]_vars

------------------------------------------------------------------------------
(* Specification of the membership race: two callers, add and remove only,  *)
(* on a point that upsert_point wrote                                       *)

MemberNext(c) ==
    \/ \E id \in PointIds, g \in GroupIds : AddStart(c, id, g, TRUE)
    \/ \E ok \in BOOLEAN : AddFetch(c, ok)
    \/ \E ok \in BOOLEAN : AddOverwrite(c, ok)
    \/ \E id \in PointIds, g \in GroupIds : RemoveStart(c, id, g, TRUE)
    \/ \E ok \in BOOLEAN : RemoveFetch(c, ok)
    \/ \E ok \in BOOLEAN : RemoveOverwrite(c, ok)
    \/ NextCall(c)

InsertedPoint(meta, groups) ==
    LET a == [point_id |-> "p1", embedding_vector |-> Dense(384, "new"),
              chunk_metadata |-> meta, splade_vector |-> Sparse("new"),
              group_ids |-> groups]
    IN Some([vectors |-> VectorPayload("384_vectors", a.embedding_vector, a.splade_vector),
             payload |-> InsertPayload(a)])

InitRace ==
    /\ \E meta \in Metadatas, groups \in InsertGroups :
           points = [id \in PointIds |-> InsertedPoint(meta, groups)]
    /\ collections = [n \in CollectionNames |-> None]
    /\ callers = [c \in Callers |-> Idle]
    /\ inserted = [id \in PointIds |-> None]
    /\ startedAfter = [c \in Callers |-> FALSE]

NextRace == \E c \in Callers : MemberNext(c)

SpecRace == InitRace /\ [][NextRace]_vars

------------------------------------------------------------------------------
(* Specification of collection creation: two callers                        *)

CreateNext(c) ==
    \/ \E name \in CollectionNames, quantize \in BOOLEAN, connected \in BOOLEAN :
            CreateStart(c, name, quantize, connected)
    \/ \E ok \in BOOLEAN : CreateInfo(c, ok)
    \/ \E ok \in BOOLEAN : CreateCollection(c, ok)
    \/ \E ok \in BOOLEAN : CreateIndex(c, ok)
    \/ NextCall(c)

InitColl ==
    /\ points = [id \in PointIds |-> None]
    /\ collections = [n \in CollectionNames |-> None]
    /\ callers = [c \in Callers |-> Idle]
    /\ inserted = [id \in PointIds |-> None]
    /\ startedAfter = [c \in Callers |-> FALSE]

NextColl == \E c \in Callers : CreateNext(c)

SpecColl == InitColl /\ [][NextColl]_vars


------------------------------------------------------------------------------
(* Specification of the queries: one caller                                 *)

MaxHits == 2

LastPage == <<154, 153, 153, 153, 153, 153, 153, 25>>
MaxU64 == [i \in 1..U64Limbs |-> Base - 1]
MaxU32 == [i \in 1..U32Limbs |-> Base - 1]

Pages ==
    { U64(0), U64(1), U64(2), U64(3), <<2, 0, 0, 0, 1, 0, 0, 0>>,
      LastPage, Truncate(NatAdd(LastPage, <<1>>), U64Limbs), MaxU64 }

SearchLimits == {U64(5), U64(10)}
GroupLimits == {U32(5), <<0, 0, 0, 128>>, MaxU32}
RecommendLimits == {U64(5), <<0, 0, 0, 0, 1, 0, 0, 0>>}

DenseQuery(len) == [type |-> "Dense", len |-> len, tag |-> "query"]
SparseQuery == [type |-> "Sparse", tag |-> "query"]
QueryVectors == {DenseQuery(384), DenseQuery(100), SparseQuery}

Hits ==
    { [id |-> Some(<<"uuid", "p1">>), score |-> 9],
      [id |-> Some(<<"uuid", "urn:uuid:", "d1">>), score |-> 8],
      [id |-> Some(<<"uuid", "zz">>), score |-> 7],
      [id |-> Some(<<"num", 7>>), score |-> 6],
      [id |-> Some(<<"none">>), score |-> 5],
      [id |-> None, score |-> 4] }

RECURSIVE SeqsUpTo(_, _)
SeqsUpTo(S, n) ==
    IF n = 0 THEN {<<>>}
    ELSE SeqsUpTo(S, n - 1)
         \cup {Append(q, x) : q \in {r \in SeqsUpTo(S, n - 1) : Len(r) = n - 1}, x \in S}

Responses == SeqsUpTo(Hits, MaxHits)

Groups ==
    { [id |-> Some(<<"string", "g1">>), hits |-> <<>>],
      [id |-> Some(<<"string", "zz">>), hits |-> <<>>],
      [id |-> Some(<<"unsigned", 3>>), hits |-> <<>>],
      [id |-> Some(<<"none">>), hits |-> <<>>],
      [id |-> None, hits |-> <<>>] }

GroupResponses ==
    {None}
    \cup {Some(<<>>)}
    \cup {Some(<<[g EXCEPT !.hits = r]>>) : g \in Groups, r \in SeqsUpTo(Hits, 1)}
    \cup {Some(<<g, [h EXCEPT !.hits = r]>>) : g \in Groups, h \in Groups,
                                               r \in SeqsUpTo(Hits, 1)}

QueryNext(c, vectors, pages, sizes, responses, groupResponses) ==
    \/ \E page \in pages, limit \in SearchLimits, vector \in vectors,
          connected \in BOOLEAN, checks \in BOOLEAN :
            SearchStart(c, page, "filter", limit, None, vector, connected, checks)
    \/ \E ok \in BOOLEAN, response \in responses : SearchCall(c, ok, response)
    \/ \E page \in pages, limit \in GroupLimits, vector \in vectors,
          connected \in BOOLEAN, checks \in BOOLEAN :
            SearchGroupsStart(c, page, "filter", limit, None, 3, vector, connected, checks)
    \/ \E ok \in BOOLEAN, response \in groupResponses : SearchGroupsCall(c, ok, response)
    \/ \E limit \in RecommendLimits, size \in sizes,
          assembled \in BOOLEAN, connected \in BOOLEAN :
            RecommendStart(c, <<"p1">>, <<>>, None, limit, "d1", size, assembled, connected)
    \/ \E ok \in BOOLEAN, response \in responses : RecommendCall(c, ok, response)
    \/ \E limit \in RecommendLimits, size \in sizes,
          assembled \in BOOLEAN, connected \in BOOLEAN :
            RecommendGroupsStart(c, <<"p1">>, <<>>, None, limit, 3, "d1", size,
                                 assembled, connected)
    \/ \E ok \in BOOLEAN, response \in groupResponses : RecommendGroupsCall(c, ok, response)
    \/ NextCall(c)

NextQuery == QueryNext("c1", QueryVectors, Pages, {384, 100}, Responses, GroupResponses)

SpecQuery == InitColl /\ [][NextQuery]_vars

------------------------------------------------------------------------------
(* Specification of the routing: one caller, every operation that routes a  *)
(* dense vector, over the supported lengths and their neighbours            *)

RoutingLengths == {0, 383, 384, 385, 512, 768, 1024, 1535, 1536, 2048}

RoutingMetadata ==
    [tag_set |-> Some(Text_ab), link |-> Some(Text_x), metadata |-> None,
     time_stamp |-> Some(7), dataset_id |-> "d1"]

NextRouting ==
    \/ \E len \in RoutingLengths, connected \in BOOLEAN :
            InsertStart("c1", "p1", Dense(len, "new"), Sparse("new"), RoutingMetadata,
                        None, connected)
    \/ \E ok \in BOOLEAN : InsertUpsert("c1", ok)
    \/ \E meta \in {None, Some(RoutingMetadata)},
          vec \in {None} \cup {Some(Dense(len, "upd")) : len \in RoutingLengths},
          connected \in BOOLEAN :
            UpdateStart("c1", "p1", meta, vec, None, "d1", Sparse("upd"), connected)
    \/ \E ok \in BOOLEAN : UpdateFetch("c1", ok)
    \/ \E ok \in BOOLEAN : UpdateUpsert("c1", ok)
    \/ \E ok \in BOOLEAN : UpdateOverwrite("c1", ok)
    \/ QueryNext("c1", {SparseQuery} \cup {DenseQuery(len) : len \in RoutingLengths},
                 {U64(1), U64(2)}, RoutingLengths, {<<>>}, {Some(<<>>)})

SpecRouting == Init /\ [][NextRouting]_vars

------------------------------------------------------------------------------
(* Specification of the points this module creates: the store starts empty   *)

InitNative ==
    /\ points = [id \in PointIds |-> None]
    /\ collections = [n \in CollectionNames |-> None]
    /\ callers = [c \in Callers |-> Idle]
    /\ inserted = [id \in PointIds |-> None]
    /\ startedAfter = [c \in Callers |-> FALSE]

SpecNative == InitNative /\ [][Next]_vars

------------------------------------------------------------------------------
(* Specification of add_to_group followed by remove_from_group: caller c1    *)
(* adds, then caller c2 removes the id c1 added last                         *)

InitRoundTrip ==
    /\ points \in [PointIds -> InitialPoints
                                \cup {InsertedPoint(meta, groups) :
                                         meta \in Metadatas, groups \in InsertGroups}]
    /\ collections = [n \in CollectionNames |-> None]
    /\ callers = [c \in Callers |-> Idle]
    /\ inserted = [id \in PointIds |-> None]
    /\ startedAfter = [c \in Callers |-> FALSE]

NextRoundTrip ==
    \/ /\ callers["c2"].pc = "idle"
       /\ \/ \E id \in PointIds, g \in GroupIds, connected \in BOOLEAN :
                  AddStart("c1", id, g, connected)
          \/ \E ok \in BOOLEAN : AddFetch("c1", ok)
          \/ \E ok \in BOOLEAN : AddOverwrite("c1", ok)
          \/ NextCall("c1")
    \/ /\ callers["c1"].pc = "done"
       /\ callers["c1"].result = "Ok"
       /\ \E connected \in BOOLEAN :
              RemoveStart("c2", callers["c1"].args.point_id, callers["c1"].args.group_id,
                          connected)
    \/ \E ok \in BOOLEAN : RemoveFetch("c2", ok)
    \/ \E ok \in BOOLEAN : RemoveOverwrite("c2", ok)

SpecRoundTrip == InitRoundTrip /\ [][NextRoundTrip]_vars

------------------------------------------------------------------------------
(* Specification of all point and query operations: one caller               *)

NextOps ==
    \/ PointNext("c1")
    \/ QueryNext("c1", {SparseQuery, DenseQuery(384)}, {U64(1), U64(2)}, {384},
                 SeqsUpTo(Hits, 1), {None, Some(<<>>)})

SpecOps == Init /\ [][NextOps]_vars

------------------------------------------------------------------------------
(* Properties                                                               *)

SupportedLengths == {384, 512, 768, 1024, 1536}

SpaceOf ==
    (384 :> "384_vectors") @@ (512 :> "512_vectors") @@ (768 :> "768_vectors")
    @@ (1024 :> "1024_vectors") @@ (1536 :> "1536_vectors")

WriteCalls == {"upsert_points", "overwrite_payload"}
QueryCalls == {"search_points", "search_groups", "recommend", "recommend_groups"}

\* the indexes of the calls of the given kinds in a call log
CallsOf(calls, kinds) == {i \in 1..Len(calls) : calls[i].call \in kinds}

\* failures of the environment that the operation hands straight to its caller
Surfaced == {"ConnectFailed", "FilterFailed", "GetPointsFailed"}

\* the dense length (or configured embedding size) an invocation routes by, if any
RoutedLength(r) ==
    CASE r.op = "insert" -> Some(r.args.embedding_vector.len)
      [] r.op = "update" ->
            IF r.args.updated_vector.some THEN Some(r.args.updated_vector.v.len) ELSE None
      [] r.op \in {"search", "search_groups"} ->
            IF r.args.vector.type = "Dense" THEN Some(r.args.vector.len) ELSE None
      [] r.op \in {"recommend", "recommend_groups"} -> Some(r.args.embedding_size)
      [] OTHER -> None

\* the vector space a backend call names
SpaceUsed(call) ==
    CASE call.call = "upsert_points" -> DOMAIN call.point.vectors \ {SparseName}
      [] call.call \in {"search_points", "search_groups"} -> {call.vector_name.v}
      [] call.call \in {"recommend", "recommend_groups"} -> {call.using.v}
      [] OTHER -> {}

\* C1 as stated: a dense vector of any other length makes every operation return the
\* invalid-vector-size error without a write, search or recommend call (read for
\* invocations in which no failure of the environment was surfaced first).
C1_Original ==
    \A c \in Callers :
        LET r == callers[c]
        IN (/\ r.pc = "done"
            /\ RoutedLength(r).some
            /\ RoutedLength(r).v \notin SupportedLengths
            /\ r.result \notin Surfaced)
           => /\ r.result = "InvalidVectorSize"
              /\ CallsOf(r.calls, WriteCalls \cup QueryCalls) = {}

C1_Routing ==
    \A c \in Callers :
        LET r == callers[c]
            len == RoutedLength(r)
        IN len.some =>
            IF len.v \in SupportedLengths
            THEN \A i \in CallsOf(r.calls, {"upsert_points"} \cup QueryCalls) :
                    SpaceUsed(r.calls[i]) = {SpaceOf[len.v]}
            ELSE /\ CallsOf(r.calls, WriteCalls \cup QueryCalls) = {}
                 /\ r.pc \in {"get_points", "done"}
                 /\ r.pc = "done" =>
                      /\ r.result \in Surfaced \cup {"InvalidVectorSize", "NotFound"}
                      /\ r.result = "NotFound" <=>
                            /\ r.op = "update"
                            /\ Len(r.calls) = 1 /\ r.calls[1].ok
                            /\ ~r.cur.some /\ ~r.args.metadata.some
                      /\ r.result = "GetPointsFailed" <=>
                            (r.op = "update" /\ Len(r.calls) = 1 /\ ~r.calls[1].ok)

C1_Unchanged ==
    \A c \in Callers :
        (/\ callers'[c] # callers[c]
         /\ RoutedLength(callers'[c]).some
         /\ RoutedLength(callers'[c]).v \notin SupportedLengths)
        => points' = points

\* C1 (amended): a dense vector whose length is one of 384, 512, 768, 1024, 1536 is
\* routed to "<length>_vectors" by insert, update, flat search, group search and
\* recommend alike.  For any other length (or configured embedding size) no upsert,
\* overwrite, search or recommend call is issued and the stored points are
\* unchanged; the operation returns the invalid-vector-size error unless a failure
\* of the connection, the filter assembly or the fetch was surfaced first, and
\* except that update_point on an absent point without new metadata returns
\* NotFound before it looks at the size.
C1_Amended == []C1_Routing /\ [][C1_Unchanged]_vars

C1_Witness ==
    /\ callers["c1"].op = "update"
    /\ callers["c1"].pc = "done"
    /\ callers["c1"].args.updated_vector = Some(Dense(385, "upd"))
    /\ callers["c1"].cur.some
    /\ callers["c1"].result = "InvalidVectorSize"
    /\ points["p1"].some

------------------------------------------------------------------------------

\* the fetch of an update succeeded and found no point
FetchedAbsent(r) ==
    /\ r.op = "update"
    /\ Len(r.calls) >= 1
    /\ r.calls[1].ok
    /\ ~r.cur.some

\* C2 as stated: update_point on an absent point always fails with NotFound and
\* writes nothing, whatever its optional arguments.
C2_Original ==
    \A c \in Callers :
        LET r == callers[c]
        IN FetchedAbsent(r) =>
            /\ r.pc = "done"
            /\ r.result = "NotFound"
            /\ CallsOf(r.calls, WriteCalls) = {}

\* C2 (amended): update_point on a point id the backend does not hold fails with
\* NotFound and writes nothing when no new metadata is supplied, with or without a
\* new dense vector or group_ids.  When new metadata is supplied it never fails
\* with NotFound: the payload is built from the metadata and the call goes on to
\* the size check and the write.
C2_Amended ==
    \A c \in Callers :
        LET r == callers[c]
        IN FetchedAbsent(r) =>
            IF r.args.metadata.some
            THEN /\ r.result # "NotFound"
                 /\ r.pc = "done" =>
                      \/ Cardinality(CallsOf(r.calls, WriteCalls)) = 1
                      \/ r.result = "InvalidVectorSize"
            ELSE /\ r.pc = "done"
                 /\ r.result = "NotFound"
                 /\ CallsOf(r.calls, WriteCalls) = {}

C2_Witness ==
    /\ FetchedAbsent(callers["c1"])
    /\ ~callers["c1"].args.metadata.some
    /\ callers["c1"].args.updated_vector = Some(Dense(512, "upd"))
    /\ callers["c1"].args.group_ids = Some(<<"g2">>)
    /\ callers["c1"].result = "NotFound"
    /\ ~points["p1"].some

------------------------------------------------------------------------------

\* C3: after upsert_point stored a point, later update_point calls without new
\* metadata (with or without a new dense vector) leave tag_set, link, metadata,
\* time_stamp, dataset_id and group_ids as the insert wrote them.
C3_RoundTrip ==
    \A id \in PointIds :
        inserted[id].some =>
            /\ points[id].some
            /\ \A f \in Fields :
                  /\ f \in DOMAIN points[id].v.payload
                  /\ points[id].v.payload[f] = inserted[id].v[f]

C3_Witness ==
    /\ inserted["p1"].some
    /\ inserted["p1"].v["tag_set"] = ListV(<<StrV(<<"a">>), StrV(<<"b">>)>>)
    /\ inserted["p1"].v["group_ids"] = ListV(<<StrV(<<"g1">>)>>)
    /\ callers["c1"].op = "update"
    /\ callers["c1"].pc = "done"
    /\ callers["c1"].result = "Ok"
    /\ ~callers["c1"].args.metadata.some
    /\ callers["c1"].args.updated_vector.some
    /\ points["p1"].v.vectors = VectorPayload("512_vectors", Dense(512, "upd"), Sparse("upd"))

------------------------------------------------------------------------------

\* an update with a new dense vector of a supported size and no new metadata that
\* fetched an existing point and has returned
VectorOnlyUpdate(r) ==
    /\ r.op = "update"
    /\ r.pc = "done"
    /\ ~r.args.metadata.some
    /\ r.args.updated_vector.some
    /\ r.args.updated_vector.v.len \in SupportedLengths
    /\ r.cur.some

\* its one write: a non-blocking upsert of the point with the new dense vector in
\* its routed space and the sparse vector
OneUpsert(r) ==
    /\ Len(r.calls) = 2
    /\ r.calls[1].call = "get_points"
    /\ r.calls[2].call = "upsert_points"
    /\ ~r.calls[2].wait
    /\ r.calls[2].point.id = <<r.args.point_id>>
    /\ DOMAIN r.calls[2].point.vectors
          = {SpaceOf[r.args.updated_vector.v.len], "sparse_vectors"}
    /\ r.calls[2].point.vectors[SpaceOf[r.args.updated_vector.v.len]]
          = r.args.updated_vector.v
    /\ r.calls[2].point.vectors["sparse_vectors"] = r.args.splade_vector

\* C4 as stated: the upsert's payload equals the fetched point's payload.
C4_Original ==
    \A c \in Callers :
        VectorOnlyUpdate(callers[c]) =>
            /\ OneUpsert(callers[c])
            /\ callers[c].calls[2].point.payload = callers[c].cur.v

\* C4 (amended): update_point with a new dense vector of a supported size and no
\* new metadata, on an existing point, issues exactly one write: a non-blocking
\* upsert of one point that carries the new dense vector in its routed space, the
\* sparse vector, and a payload of the six fields tag_set, link, metadata,
\* time_stamp, dataset_id and group_ids, each copied from the fetched point; a
\* field the fetched point lacks is written as the empty string (group_ids: the
\* empty list), so the payload equals the fetched one exactly when that holds all
\* six fields.  It then returns without the payload-only overwrite.
C4_Amended ==
    \A c \in Callers :
        LET r == callers[c]
        IN VectorOnlyUpdate(r) =>
            /\ OneUpsert(r)
            /\ DOMAIN r.calls[2].point.payload = Fields
            /\ \A f \in Fields :
                  r.calls[2].point.payload[f] =
                      IF f \in DOMAIN r.cur.v THEN r.cur.v[f]
                      ELSE IF f = "group_ids" THEN <<"list">>
                      ELSE <<"string">>
            /\ (DOMAIN r.cur.v = Fields) => r.calls[2].point.payload = r.cur.v
            /\ r.result = IF r.calls[2].ok THEN "Ok" ELSE "UpsertFailed"

C4_Witness ==
    /\ VectorOnlyUpdate(callers["c1"])
    /\ callers["c1"].result = "Ok"
    /\ DOMAIN callers["c1"].cur.v = Fields
    /\ callers["c1"].cur.v["group_ids"] = ListV(<<StrV(<<"g1">>)>>)
    /\ points["p1"].v.payload = callers["c1"].cur.v
    /\ points["p1"].v.vectors = VectorPayload("512_vectors", Dense(512, "upd"), Sparse("upd"))

------------------------------------------------------------------------------

\* the step in which a membership edit's overwrite is accepted by the backend
MemberWrites(c, op) ==
    /\ callers[c].op = op
    /\ callers[c].pc = "overwrite_payload"
    /\ callers'[c].pc = "done"
    /\ callers'[c].result = "Ok"

\* the entries of a payload's group_ids, none when the field is missing
GroupEntries(payload) ==
    IF "group_ids" \in DOMAIN payload THEN Items(payload["group_ids"]) ELSE <<>>

\* an entry as the editor writes it back: the canonical text of the UUID it parses
\* to, the nil UUID for an entry that is no UUID
CanonicalEntry(value) ==
    IF value[1] = "string" /\ Len(value) = 2 /\ value[2] \in Uuids THEN value
    ELSE IF value[1] = "string" /\ Len(value) = 3 /\ value[2] = "urn:uuid:"
            /\ value[3] \in Uuids
    THEN <<"string", value[3]>>
    ELSE <<"string", "nil">>

Canonical(entries) == [i \in 1..Len(entries) |-> CanonicalEntry(entries[i])]

Entry(group_id) == <<"string", group_id>>

StoredPayload(id) == points[id].v.payload

\* C5 as stated: on success the stored group_ids equals the previously stored list
\* followed by the new group id.
C5_Stated ==
    \A c \in Callers :
        MemberWrites(c, "add") =>
            LET id == callers[c].args.point_id
            IN GroupEntries(points'[id].v.payload)
                 = Append(GroupEntries(StoredPayload(id)), Entry(callers[c].args.group_id))

\* C5 as stated, over every step in which an add's overwrite is accepted
C5_Original == [][C5_Stated]_vars

C5_Appends ==
    \A c \in Callers :
        MemberWrites(c, "add") =>
            LET id == callers[c].args.point_id
                before == GroupEntries(StoredPayload(id))
                after == GroupEntries(points'[id].v.payload)
                new == Entry(callers[c].args.group_id)
            IN /\ "group_ids" \in DOMAIN points'[id].v.payload
               /\ after = Append(Canonical(before), new)
               /\ Canonical(before) = before => after = Append(before, new)
               /\ "group_ids" \notin DOMAIN StoredPayload(id) => after = <<new>>
               /\ Len(after) = Len(before) + 1

\* C5 (amended): add_to_group appends without deduplication: on success the stored
\* group_ids equals the previously stored list, each entry rewritten as the
\* canonical text of the UUID it parses to (the nil UUID for an entry that is no
\* UUID), followed by the new group id.  For a stored list of canonical UUID
\* strings this is the previous list followed by the new id; on a point with no
\* group_ids field the result is exactly [newGroup]; two sequential adds of the same
\* id leave two entries of it.
C5_Amended == [][C5_Appends]_vars

C5_Witness ==
    /\ callers["c1"].op = "add"
    /\ callers["c1"].pc = "done"
    /\ callers["c1"].result = "Ok"
    /\ callers["c1"].args.group_id = "g1"
    /\ GroupEntries(callers["c1"].cur.v) = <<Entry("g1")>>
    /\ GroupEntries(StoredPayload("p1")) = <<Entry("g1"), Entry("g1")>>

------------------------------------------------------------------------------

Occurs(group_id, entries) == \E i \in 1..Len(entries) : entries[i] = Entry(group_id)

C6_Stated ==
    \A c \in Callers :
        MemberWrites(c, "remove") =>
            LET id == callers[c].args.point_id
                g == callers[c].args.group_id
            IN /\ ~Occurs(g, GroupEntries(StoredPayload(id)))
                    => points'[id].v.payload = StoredPayload(id)
               /\ RemovePayload(points'[id].v.payload, g) = points'[id].v.payload

\* C6 as stated: for every existing point and every group id that does not occur in
\* its stored group_ids, the payload after remove_from_group equals the payload
\* before; a second remove of the same id writes what the first one wrote.
C6_Original == [][C6_Stated]_vars

C6_Removes ==
    \A c \in Callers :
        MemberWrites(c, "remove") =>
            LET id == callers[c].args.point_id
                g == callers[c].args.group_id
                before == StoredPayload(id)
                after == points'[id].v.payload
            IN /\ DOMAIN after = Fields
               /\ GroupEntries(after)
                    = SelectSeq(Canonical(GroupEntries(before)), LAMBDA e : e # Entry(g))
               /\ ~Occurs(g, GroupEntries(after))
               /\ Canonical(GroupEntries(after)) = GroupEntries(after)
               /\ (/\ DOMAIN before = Fields
                   /\ Canonical(GroupEntries(before)) = GroupEntries(before)
                   /\ ~Occurs(g, GroupEntries(before)))
                  => after = before
               /\ RemovePayload(after, g) = after

\* C6 (amended): remove_from_group is idempotent, and a no-op for an absent id on a
\* point whose payload holds the six fields and a group_ids list of canonical UUID
\* strings (every point this module wrote): for such a point and every group id
\* that does not occur in its stored group_ids the payload after the call equals the
\* payload before.  Any successful remove leaves such a payload without the id, so
\* a second remove of the same id leaves what the first one left.  On other points
\* the call rewrites the payload even when the id is absent: missing fields are
\* filled with placeholders and entries are rewritten in canonical form (nil UUID
\* for an entry that is no UUID).
C6_Amended == [][C6_Removes]_vars

C6_Witness ==
    /\ callers["c1"].op = "remove"
    /\ callers["c1"].pc = "done"
    /\ callers["c1"].result = "Ok"
    /\ callers["c1"].args.group_id = "g2"
    /\ DOMAIN callers["c1"].cur.v = Fields
    /\ GroupEntries(callers["c1"].cur.v) = <<Entry("g1")>>
    /\ StoredPayload("p1") = callers["c1"].cur.v

------------------------------------------------------------------------------

C7_SnapshotWrite ==
    \A c \in Callers :
        LET id == callers[c].args.point_id
            g == callers[c].args.group_id
            snapshot == GroupEntries(callers[c].cur.v)
        IN /\ MemberWrites(c, "add")
                => GroupEntries(points'[id].v.payload) = Append(snapshot, Entry(g))
           /\ MemberWrites(c, "remove")
                => GroupEntries(points'[id].v.payload)
                     = SelectSeq(snapshot, LAMBDA e : e # Entry(g))

\* C7: a membership edit writes the list it computed from its own fetch, whatever
\* the backend holds by then (no compare-and-swap), so when two edits of one point
\* both fetch before either writes, both return success and the stored group_ids
\* is the later writer's list alone: the earlier edit is lost (C7_Witness).
C7_LostUpdate == [][C7_SnapshotWrite]_vars

C7_Witness ==
    /\ \A c \in Callers :
          /\ callers[c].op = "add"
          /\ callers[c].pc = "done"
          /\ callers[c].result = "Ok"
          /\ Len(callers[c].calls) = 2
    /\ callers["c1"].args.group_id = "g1"
    /\ callers["c2"].args.group_id = "g2"
    /\ callers["c1"].cur = callers["c2"].cur
    /\ GroupEntries(callers["c1"].cur.v) = <<>>
    /\ GroupEntries(StoredPayload("p1")) = <<Entry("g2")>>

------------------------------------------------------------------------------

CreationCalls == {"create_collection", "create_field_index"}

\* a create_collection invocation that started when the backend held the name
LaterCreate(c) == callers[c].op = "create" /\ startedAfter[c]

\* C8 as stated: once the name is present, every later create_collection call
\* returns the already-exists error and issues no create-collection and no
\* create-field-index call (read for invocations that reached the backend).
C8_Original ==
    \A c \in Callers :
        LaterCreate(c) =>
            /\ callers[c].pc \in {"collection_info", "done"}
            /\ CallsOf(callers[c].calls, CreationCalls) = {}
            /\ callers[c].pc = "done"
                 => callers[c].result \in {"AlreadyExists", "ConnectFailed"}

C8_Rejected ==
    \A c \in Callers :
        LaterCreate(c) =>
            LET r == callers[c]
            IN /\ r.pc # "create_field_index"
               /\ CallsOf(r.calls, {"create_field_index"}) = {}
               /\ \A i \in CallsOf(r.calls, {"create_collection"}) :
                     i = 2 /\ ~r.calls[1].ok /\ ~r.calls[i].ok
               /\ r.pc = "done" =>
                     /\ r.result \in {"AlreadyExists", "CreateFailed", "ConnectFailed"}
                     /\ r.result = "ConnectFailed" <=> r.calls = <<>>
                     /\ r.result = "CreateFailed" => Len(r.calls) = 2
               /\ (r.calls # <<>> /\ r.calls[1].ok) =>
                     /\ r.pc = "done"
                     /\ r.result = "AlreadyExists"
                     /\ Len(r.calls) = 1
               /\ collections[r.args.qdrant_collection].some

C8_Untouched ==
    \A c \in Callers :
        (LaterCreate(c) /\ callers'[c] # callers[c]) => collections' = collections

\* C8 (amended): collection creation is not idempotent: once a collection name is
\* present in the backend, every later create_collection call with that name
\* returns an error, issues no create-field-index call and leaves the existing
\* collection and its indexes unchanged.  When collection_info reports the
\* collection the call returns the already-exists error without a create-collection
\* call.  When collection_info itself fails, the failure is ignored and one
\* create-collection call is issued, which the backend rejects: the call then
\* returns the already-exists error if the rejection says so and the
\* failed-to-create error otherwise.
C8_Amended == []C8_Rejected /\ [][C8_Untouched]_vars

C8_Witness ==
    /\ LaterCreate("c2")
    /\ callers["c2"].pc = "done"
    /\ callers["c2"].result = "AlreadyExists"
    /\ Len(callers["c2"].calls) = 1
    /\ callers["c2"].calls[1].ok
    /\ collections[callers["c2"].args.qdrant_collection].v.indexes = FieldIndexes

------------------------------------------------------------------------------

FieldOrder == <<"link", "tag_set", "dataset_id", "metadata", "time_stamp", "group_ids">>

IsPrefix(s, t) == Len(s) <= Len(t) /\ \A i \in 1..Len(s) : s[i] = t[i]

IndexFields(indexes) == [i \in 1..Len(indexes) |-> indexes[i].field]

\* the invocation's calls are collection_info, create_collection and then the
\* index creations in the fixed order, each attempted only after the one before it
\* succeeded
OrderedIndexCalls(calls) ==
    \A i \in CallsOf(calls, {"create_field_index"}) :
        /\ i >= 3
        /\ i - 2 <= Len(FieldOrder)
        /\ calls[i].index.field = FieldOrder[i - 2]
        /\ calls[i - 1].ok

C9_Partial ==
    /\ \A n \in CollectionNames :
          collections[n].some =>
              IsPrefix(IndexFields(collections[n].v.indexes), FieldOrder)
    /\ \A c \in Callers :
          callers[c].op = "create" =>
              LET r == callers[c]
                  k == Len(r.calls) - 2
              IN /\ OrderedIndexCalls(r.calls)
                 /\ r.result = "IndexFailed" =>
                       /\ r.pc = "done"
                       /\ k \in 1..Len(FieldOrder)
                       /\ r.calls[k + 2].call = "create_field_index"
                       /\ ~r.calls[k + 2].ok
                       /\ collections[r.args.qdrant_collection].some
                       /\ IndexFields(collections[r.args.qdrant_collection].v.indexes)
                            = SubSeq(FieldOrder, 1, k - 1)
                 /\ r.result = "Ok" =>
                       IndexFields(collections[r.args.qdrant_collection].v.indexes)
                            = FieldOrder

C9_NoRollback ==
    \A n \in CollectionNames :
        collections[n].some =>
            /\ collections'[n].some
            /\ collections'[n].v.config = collections[n].v.config
            /\ IsPrefix(collections[n].v.indexes, collections'[n].v.indexes)

\* C9: field indexes are created one at a time in the order link, tag_set,
\* dataset_id, metadata, time_stamp, group_ids; when the k-th creation fails the
\* call returns an error with no later index attempted, and the collection and the
\* k-1 indexes created before stay in the backend: nothing is rolled back.
C9_PartialBootstrap == []C9_Partial /\ [][C9_NoRollback]_vars

C9_Witness ==
    /\ callers["c1"].op = "create"
    /\ callers["c1"].pc = "done"
    /\ callers["c1"].result = "IndexFailed"
    /\ Len(callers["c1"].calls) = 5
    /\ collections[callers["c1"].args.qdrant_collection].some
    /\ IndexFields(collections[callers["c1"].args.qdrant_collection].v.indexes)
         = <<"link", "tag_set">>

------------------------------------------------------------------------------

\* the search_points requests of an invocation
SearchRequests(r) == {r.calls[i] : i \in CallsOf(r.calls, {"search_points"})}

\* offset = (page - 1) * 10 over the naturals, stated as offset + 10 = page * 10
ExactOffset(offset, page) ==
    /\ offset.some
    /\ NumEq(NatAdd(offset.v, <<10>>), NatMul(page, <<10>>))

\* C10 as stated: for every page >= 1 and every limit the search request has offset
\* = (page - 1) * 10 and limit = limit.
C10_Original ==
    \A c \in Callers :
        LET r == callers[c]
        IN (r.op = "search" /\ ~NumEq(r.args.page, <<0>>)) =>
              \A request \in SearchRequests(r) :
                  /\ ExactOffset(request.offset, r.args.page)
                  /\ request.limit = r.args.limit

\* ((page - 1) * 10) modulo 2^64, as offset + 10 = page * 10 modulo 2^64
WrappedOffset(offset, page) ==
    /\ offset.some
    /\ Truncate(NatAdd(offset.v, <<10>>), 8) = Truncate(NatMul(page, <<10>>), 8)

\* C10 (amended): flat-search pagination uses a fixed stride of 10: for every page
\* from 1 to 1844674407370955162 and every limit, the search request sent to the
\* backend has offset = (page - 1) * 10 and limit = limit (page=1 gives offset 0,
\* page=2 with limit=5 gives offset 10), for both dense and sparse queries, and one
\* request is sent unless the connection fails or the dense length is unsupported.
\* For a larger page (page - 1) * 10 does not fit 64 bits, and for page 0 page - 1
\* does not: the call aborts in a build with overflow checks and sends the offset
\* reduced modulo 2^64 in a build without.
C10_Amended ==
    \A c \in Callers :
        LET r == callers[c]
        IN r.op = "search" =>
            /\ \A request \in SearchRequests(r) :
                  /\ request.limit = r.args.limit
                  /\ WrappedOffset(request.offset, r.args.page)
                  /\ request.sparse_indices <=> r.args.vector.type = "Sparse"
            /\ (~NumEq(r.args.page, <<0>>) /\ ~NatLess(LastPage, r.args.page)) =>
                  /\ \A request \in SearchRequests(r) :
                        ExactOffset(request.offset, r.args.page)
                  /\ r.result # "Panic"
                  /\ (r.pc = "done" /\ r.result \notin {"ConnectFailed", "InvalidVectorSize"})
                        => Cardinality(CallsOf(r.calls, {"search_points"})) = 1
            /\ r.result = "Panic" =>
                  /\ r.calls = <<>>
                  /\ NumEq(r.args.page, <<0>>) \/ NatLess(LastPage, r.args.page)

C10_Witness ==
    /\ callers["c1"].op = "search"
    /\ callers["c1"].pc = "done"
    /\ callers["c1"].result = "Ok"
    /\ callers["c1"].args.page = U64(2)
    /\ callers["c1"].args.limit = U64(5)
    /\ callers["c1"].args.vector.type = "Sparse"
    /\ callers["c1"].calls[1].offset = Some(U64(10))
    /\ callers["c1"].calls[1].limit = U64(5)

------------------------------------------------------------------------------

\* the search_groups requests of an invocation
GroupRequests(r) == {r.calls[i] : i \in CallsOf(r.calls, {"search_groups"})}

\* C11 as stated: group search requests a backend limit equal to limit * page for
\* every 32-bit limit and every 64-bit page, with grouping key group_ids and no
\* offset.
C11_Original ==
    \A c \in Callers :
        LET r == callers[c]
        IN r.op = "search_groups" =>
              \A request \in GroupRequests(r) :
                  /\ NumEq(request.limit, NatMul(r.args.limit, r.args.page))
                  /\ request.group_by = "group_ids"
                  /\ ~request.offset.some

\* C11 (amended): group search requests a backend limit of limit * (page mod 2^32):
\* the 64-bit page is first cut to its low 32 bits and the product is taken on 32
\* bits.  The requested limit equals limit * page whenever page and limit * page
\* are both below 2^32 (page=2, limit=5 requests 10).  When limit * (page mod
\* 2^32) does not fit 32 bits the call aborts before any request in a build with
\* overflow checks and requests the product modulo 2^32 in a build without.  Every
\* request groups by group_ids and carries no offset, for dense and sparse queries.
C11_Amended ==
    \A c \in Callers :
        LET r == callers[c]
            low == Truncate(r.args.page, 4)
        IN r.op = "search_groups" =>
            /\ \A request \in GroupRequests(r) :
                  /\ request.limit = Truncate(NatMul(r.args.limit, low), 4)
                  /\ request.group_by = "group_ids"
                  /\ ~request.offset.some
                  /\ request.sparse_indices <=> r.args.vector.type = "Sparse"
            /\ (Fits(r.args.page, 4) /\ Fits(NatMul(r.args.limit, r.args.page), 4)) =>
                  /\ \A request \in GroupRequests(r) :
                        NumEq(request.limit, NatMul(r.args.limit, r.args.page))
                  /\ r.result = "Panic" => Len(r.calls) = 1
                  /\ (r.pc = "done" /\ r.result \notin {"ConnectFailed", "InvalidVectorSize"})
                        => Cardinality(CallsOf(r.calls, {"search_groups"})) = 1
            /\ (r.result = "Panic" /\ r.calls = <<>>) =>
                  ~Fits(NatMul(r.args.limit, low), 4)

C11_Witness ==
    /\ callers["c1"].op = "search_groups"
    /\ callers["c1"].pc = "done"
    /\ callers["c1"].result = "Ok"
    /\ callers["c1"].args.page = U64(2)
    /\ callers["c1"].args.limit = U32(5)
    /\ callers["c1"].args.vector.type = "Dense"
    /\ callers["c1"].calls[1].limit = U32(10)
    /\ callers["c1"].calls[1].group_by = "group_ids"

------------------------------------------------------------------------------

\* the create-collection requests of an invocation
CreateRequests(r) == {r.calls[i].request : i \in CallsOf(r.calls, {"create_collection"})}

DenseSpaces == {SpaceOf[len] : len \in SupportedLengths}

BinaryInRam == [quantization |-> "Binary", always_ram |-> TRUE]

\* the request names the five dense spaces, each of its own size, and quantizes
\* exactly the given ones, in binary mode kept in memory
QuantizesExactly(request, spaces) ==
    /\ DOMAIN request.vectors_config = DenseSpaces
    /\ \A len \in SupportedLengths : request.vectors_config[SpaceOf[len]].size = len
    /\ \A n \in DenseSpaces :
          request.vectors_config[n].quantization_config
            = IF n \in spaces THEN [some |-> TRUE, v |-> BinaryInRam] ELSE [some |-> FALSE]

\* C12 as stated: with quantize = true the request carries binary quantization on
\* every dense space except the 384-dimensional one; with quantize = false on none.
C12_Original ==
    \A c \in Callers :
        callers[c].op = "create" =>
            \A request \in CreateRequests(callers[c]) :
                QuantizesExactly(request,
                    IF callers[c].args.quantize THEN DenseSpaces \ {"384_vectors"} ELSE {})

\* C12 (amended): when create_collection is called with quantize = true, the
\* create-collection request carries binary quantization (always in RAM) on every
\* dense vector space except the 512-dimensional one, i.e. on exactly 384, 768, 1024
\* and 1536; with quantize = false no dense space carries quantization.  A
\* collection the backend creates holds the configuration of that request.
C12_Amended ==
    /\ \A c \in Callers :
          callers[c].op = "create" =>
              \A request \in CreateRequests(callers[c]) :
                  /\ request.collection_name = callers[c].args.qdrant_collection
                  /\ QuantizesExactly(request,
                        IF callers[c].args.quantize THEN DenseSpaces \ {"512_vectors"}
                        ELSE {})
    /\ \A n \in CollectionNames :
          collections[n].some =>
              \/ QuantizesExactly(collections[n].v.config, DenseSpaces \ {"512_vectors"})
              \/ QuantizesExactly(collections[n].v.config, {})

C12_Witness ==
    /\ callers["c1"].op = "create"
    /\ callers["c1"].pc = "done"
    /\ callers["c1"].result = "Ok"
    /\ callers["c1"].args.quantize
    /\ \E request \in CreateRequests(callers["c1"]) :
          /\ request.vectors_config["384_vectors"].quantization_config.some
          /\ ~request.vectors_config["512_vectors"].quantization_config.some
          /\ collections[callers["c1"].args.qdrant_collection].v.config = request

------------------------------------------------------------------------------

\* the payloads an invocation sent to the backend in its write calls
WrittenPayloads(r) ==
    {r.calls[i].point.payload : i \in CallsOf(r.calls, {"upsert_points"})}
    \cup {r.calls[i].payload : i \in CallsOf(r.calls, {"overwrite_payload"})}

\* the group_ids an update with new metadata is to write
PrecedenceGroups(a, cur) ==
    IF a.group_ids.some
    THEN <<"list">> \o [i \in 1..Len(a.group_ids.v) |-> Entry(a.group_ids.v[i])]
    ELSE IF cur.some /\ "group_ids" \in DOMAIN cur.v THEN cur.v["group_ids"]
    ELSE <<"list">>

\* the other fields, from the new metadata and the dataset_id argument alone
RebuiltField(a, f) ==
    LET meta == a.metadata.v
    IN CASE f = "tag_set" ->
              IF meta.tag_set = Some(<<"a", ",", "b">>)
              THEN <<"list", <<"string", "a">>, <<"string", "b">>>>
              ELSE <<"list", <<"string">>>>
         [] f = "link" ->
              IF meta.link.some THEN <<"list", <<"string">> \o meta.link.v>>
              ELSE <<"list", <<"string">>>>
         [] f = "metadata" -> IF meta.metadata.some THEN meta.metadata.v ELSE <<"object">>
         [] f = "time_stamp" ->
              <<"integer", IF meta.time_stamp.some THEN meta.time_stamp.v ELSE 0>>
         [] OTHER -> <<"string", a.dataset_id>>

\* C13: update_point with new metadata writes the group_ids argument if it is given
\* (an empty one too), otherwise the fetched point's stored group_ids, otherwise the
\* empty list; every other field is rebuilt from the new metadata and the
\* dataset_id argument, whatever the fetched point holds.
C13_Precedence ==
    \A c \in Callers :
        LET r == callers[c]
        IN (r.op = "update" /\ r.args.metadata.some) =>
              \A payload \in WrittenPayloads(r) :
                  /\ DOMAIN payload = Fields
                  /\ payload["group_ids"] = PrecedenceGroups(r.args, r.cur)
                  /\ \A f \in Fields \ {"group_ids"} : payload[f] = RebuiltField(r.args, f)

C13_Witness ==
    /\ callers["c1"].op = "update"
    /\ callers["c1"].pc = "done"
    /\ callers["c1"].result = "Ok"
    /\ callers["c1"].args.metadata.some
    /\ callers["c1"].args.metadata.v.dataset_id = "d2"
    /\ callers["c1"].args.group_ids = Some(<<>>)
    /\ callers["c1"].cur.some
    /\ DOMAIN callers["c1"].cur.v = Fields
    /\ Kind(callers["c1"].cur.v["group_ids"]) = "list"
    /\ GroupEntries(callers["c1"].cur.v) = <<Entry("g1")>>
    /\ callers["c1"].cur.v["tag_set"] = <<"list", <<"string", "a">>, <<"string", "b">>>>
    /\ StoredPayload("p1")["group_ids"] = <<"list">>
    /\ StoredPayload("p1")["tag_set"] = <<"list", <<"string">>>>
    /\ StoredPayload("p1")["dataset_id"] = <<"string", "d1">>

------------------------------------------------------------------------------

PointAndQueryOps ==
    {"insert", "update", "add", "remove", "search", "search_groups",
     "recommend", "recommend_groups"}

\* C14: in insert, update, add/remove group, search, group search and recommend,
\* each backend call is issued at most once per invocation, and a backend call that
\* reports an error is the invocation's last: the operation has returned an error.
C14_FailFast ==
    \A c \in Callers :
        LET r == callers[c]
        IN r.op \in PointAndQueryOps =>
            /\ \A i, j \in 1..Len(r.calls) :
                  r.calls[i].call = r.calls[j].call => i = j
            /\ Len(r.calls) <= 2
            /\ \A i \in 1..Len(r.calls) :
                  ~r.calls[i].ok =>
                      /\ i = Len(r.calls)
                      /\ r.pc = "done"
                      /\ r.result \in {"GetPointsFailed", "UpsertFailed", "PayloadUpdateFailed",
                                       "SearchFailed", "RecommendFailed"}
            /\ r.result = "Ok" => \A i \in 1..Len(r.calls) : r.calls[i].ok

C14_Witness ==
    /\ callers["c1"].op = "update"
    /\ callers["c1"].pc = "done"
    /\ Len(callers["c1"].calls) = 2
    /\ callers["c1"].calls[1].ok
    /\ callers["c1"].calls[2].call = "upsert_points"
    /\ ~callers["c1"].calls[2].ok
    /\ callers["c1"].result = "UpsertFailed"

------------------------------------------------------------------------------

\* a hit whose identifier is a string holding a UUID
HasUuid(hit) ==
    /\ hit.id.some
    /\ hit.id.v[1] = "uuid"
    /\ \/ Len(hit.id.v) = 2 /\ hit.id.v[2] \in Uuids
       \/ Len(hit.id.v) = 3 /\ hit.id.v[2] = "urn:uuid:" /\ hit.id.v[3] \in Uuids

UuidOf(hit) == hit.id.v[Len(hit.id.v)]

\* the position in the reply of the k-th hit that has a UUID
KeptAt(reply, k) ==
    CHOOSE i \in 1..Len(reply) :
        /\ HasUuid(reply[i])
        /\ Cardinality({j \in 1..i : HasUuid(reply[j])}) = k

\* result is reply without the hits that have no UUID, order and scores kept
Normalized(result, reply) ==
    /\ Len(result) = Cardinality({i \in 1..Len(reply) : HasUuid(reply[i])})
    /\ \A k \in 1..Len(result) :
          /\ result[k].score = reply[KeptAt(reply, k)].score
          /\ result[k].point_id = UuidOf(reply[KeptAt(reply, k)])

\* C15: the list flat search returns is the backend's hit list, in its order and
\* with its scores, without the hits whose identifier is numeric, missing, or a
\* string that is no UUID; a malformed hit never makes the call fail.
C15_Normalization ==
    \A c \in Callers :
        LET r == callers[c]
        IN (r.op = "search" /\ r.pc = "done" /\ r.calls # <<>>) =>
              IF r.calls[1].ok
              THEN /\ r.result = "Ok"
                   /\ Normalized(r.out, r.calls[1].reply.v)
              ELSE /\ r.result = "SearchFailed"
                   /\ r.out = <<>>

C15_Witness ==
    /\ callers["c1"].op = "search"
    /\ callers["c1"].pc = "done"
    /\ callers["c1"].result = "Ok"
    /\ callers["c1"].calls[1].reply.v
         = << [id |-> Some(<<"uuid", "zz">>), score |-> 7],
              [id |-> Some(<<"uuid", "urn:uuid:", "d1">>), score |-> 8] >>
    /\ callers["c1"].out = << [score |-> 8, point_id |-> "d1"] >>

------------------------------------------------------------------------------

\* a list of strings
IsStringList(value) ==
    /\ value[1] = "list"
    /\ \A i \in 2..Len(value) : value[i][1] = "string"

\* C16: a point created by upsert_point and modified since only by update_point,
\* add_to_group and remove_from_group always stores a group_ids field that is a
\* list, so the membership editor's decoding never aborts on it.
C16_AlwaysList ==
    /\ \A id \in PointIds :
          points[id].some =>
              /\ "group_ids" \in DOMAIN StoredPayload(id)
              /\ IsStringList(StoredPayload(id)["group_ids"])
    /\ \A c \in Callers :
          /\ callers[c].result # "Panic"
          /\ (callers[c].op \in {"add", "remove"} /\ callers[c].cur.some)
                => ~DecodeAborts(callers[c].cur.v)

C16_Witness ==
    /\ callers["c1"].op = "add"
    /\ callers["c1"].pc = "done"
    /\ callers["c1"].result = "Ok"
    /\ callers["c1"].args.group_id = "g2"
    /\ callers["c1"].cur.v["group_ids"] = <<"list">>
    /\ callers["c1"].cur.v["dataset_id"] = <<"string", "d1">>
    /\ callers["c1"].cur.v["tag_set"] = <<"list", <<"string">>>>
    /\ StoredPayload("p1")["group_ids"] = <<"list", <<"string", "g2">>>>

------------------------------------------------------------------------------

\* an invocation is creating the indexes of the collection
Indexing(cs, c, n) ==
    /\ cs[c].op = "create"
    /\ cs[c].pc = "create_field_index"
    /\ cs[c].args.qdrant_collection = n

\* the collection exists and the invocation that created it has ended
Settled(cs, cols, n) == cols[n].some /\ \A c \in Callers : ~Indexing(cs, c, n)

C17_LaterRejected ==
    \A c \in Callers :
        LaterCreate(c) =>
            LET r == callers[c]
            IN /\ ~Indexing(callers, c, r.args.qdrant_collection)
               /\ CallsOf(r.calls, {"create_field_index"}) = {}
               /\ r.pc = "done" =>
                     \/ r.result = "AlreadyExists"
                     \/ r.result = "ConnectFailed" /\ r.calls = <<>>
                     \/ /\ r.result = "CreateFailed"
                        /\ r.calls[Len(r.calls)].call = "create_collection"

C17_Frozen ==
    \A n \in CollectionNames :
        Settled(callers, collections, n) =>
            /\ collections'[n] = collections[n]
            /\ Settled(callers', collections', n)

------------------------------------------------------------------------------

\* an entry that is a string holding a UUID, in canonical or in urn form
ValidEntry(value) ==
    /\ value[1] = "string"
    /\ \/ Len(value) = 2 /\ value[2] \in Uuids
       \/ Len(value) = 3 /\ value[2] = "urn:uuid:" /\ value[3] \in Uuids

\* the stored group_ids is a list of valid UUID strings none of which is the id
ValidWithout(payload, group_id) ==
    /\ "group_ids" \in DOMAIN payload
    /\ Kind(payload["group_ids"]) = "list"
    /\ \A i \in 1..Len(GroupEntries(payload)) :
          /\ ValidEntry(GroupEntries(payload)[i])
          /\ GroupEntries(payload)[i][Len(GroupEntries(payload)[i])] # group_id

\* c1's add of an id and then c2's remove of it have both succeeded
AddedThenRemoved ==
    /\ callers["c1"].op = "add" /\ callers["c1"].pc = "done"
    /\ callers["c1"].result = "Ok"
    /\ callers["c2"].op = "remove" /\ callers["c2"].pc = "done"
    /\ callers["c2"].result = "Ok"

\* the payload the add fetched: the one stored before the two calls
BeforeAdd == callers["c1"].cur.v

\* C18 as stated: on a stored list of valid UUID strings not containing G, add(G)
\* followed by remove(G) restores the original list.
C18_Original ==
    (AddedThenRemoved /\ ValidWithout(BeforeAdd, callers["c1"].args.group_id)) =>
        GroupEntries(StoredPayload(callers["c1"].args.point_id)) = GroupEntries(BeforeAdd)

\* C18 (amended): for an existing point whose stored group_ids is a list of
\* canonical UUID strings not containing G, a sequential add_to_group(G) followed by
\* remove_from_group(G) restores group_ids to its original list (same entries, same
\* order).  For a list of valid UUID strings in another form the same UUIDs come
\* back in the same order, each rewritten in canonical text.  For any stored list,
\* after a successful remove_from_group(G) no entry equal to G remains, however
\* many times G had been added.
C18_Amended ==
    /\ (AddedThenRemoved /\ ValidWithout(BeforeAdd, callers["c1"].args.group_id)) =>
          LET after == GroupEntries(StoredPayload(callers["c1"].args.point_id))
          IN /\ after = Canonical(GroupEntries(BeforeAdd))
             /\ Canonical(GroupEntries(BeforeAdd)) = GroupEntries(BeforeAdd)
                   => after = GroupEntries(BeforeAdd)
    /\ (callers["c2"].pc = "done" /\ callers["c2"].result = "Ok") =>
          LET after == GroupEntries(StoredPayload(callers["c2"].args.point_id))
          IN /\ Kind(StoredPayload(callers["c2"].args.point_id)["group_ids"]) = "list"
             /\ \A i \in 1..Len(after) : after[i] # Entry(callers["c2"].args.group_id)

C18_Witness ==
    /\ AddedThenRemoved
    /\ callers["c1"].args.group_id = "g2"
    /\ ValidWithout(BeforeAdd, "g2")
    /\ GroupEntries(BeforeAdd) = <<Entry("g1")>>
    /\ Kind(callers["c2"].cur.v["group_ids"]) = "list"
    /\ GroupEntries(callers["c2"].cur.v) = <<Entry("g1"), Entry("g2")>>
    /\ GroupEntries(StoredPayload("p1")) = <<Entry("g1")>>

====
